---- MODULE Spec2Model ----
(***************************************************************************)
(* Model of the tensoroptim shared-memory tensor engine:                   *)
(*   - SlabAllocator            (tensoroptim/memory/allocators.py)         *)
(*   - TensorCodec              (tensoroptim/codecs/codec.py)              *)
(*   - TensorDescriptor         (tensoroptim/types/descriptors.py)         *)
(*   - TensorReference          (tensoroptim/core/tensor.py)               *)
(*   - TensorPool share/get     (tensoroptim/core/pool.py)                 *)
(* Offsets and sizes are in bytes; a tensor is its sequence of bytes.      *)
(***************************************************************************)
EXTENDS Integers, Sequences, FiniteSets, TLC

(* ------------------------------ bounds --------------------------------- *)

\* Largest object size, slab size and segment size an allocator is built with.
MaxObjectSize == 3
MaxSlabSize == 4
MaxSegmentSize == 8
\* Cap on the number of successful allocations of one allocator.
MaxAllocs == 5

\* Tensor engine: the descriptor alignment is 2^AlignmentLog2 bytes (64 in
\* the pool), a pool object is one alignment unit (1 MiB in the pool) and the
\* pool's segment holds PoolSlots of them.
AlignmentLog2 == 2
PoolSlots == 2
\* Largest number of calls made on the pool and its handles.
MaxCalls == 4
\* The clock runs from 0 to MaxTime, in units of one hour.
MaxTime == 3
\* TensorRegistry(cleanup_threshold): queue length above which register
\* runs the cleanup inline.
CleanupThreshold == 2
\* max_age of _trigger_cleanup: 7200 seconds, in hours.
BackgroundMaxAge == 2
\* Size in bytes of a segment used on its own.
SegmentBytes == 3
\* Largest dimension and largest number of dimensions of a shape given to
\* TensorDescriptor.
MaxDim == 3
MaxDims == 2
\* passes a background loop makes
MaxPasses == 2
\* Largest total_size of a BestFitAllocator.
MaxTotal == 4
\* Largest min_size of a BuddyAllocator and largest number of doublings of
\* min_size that give its total_size.
MaxMinSize == 3
MaxLevels == 2

ObjectSizes == 1..MaxObjectSize
SlabSizes == 2..MaxSlabSize

\* TensorDescriptor.alignment (power of two), pool object size, segment size.
Alignment == 2 ^ AlignmentLog2
PoolObjectSize == Alignment
PoolMemory == PoolSlots * PoolObjectSize
Offsets == 0..((IF PoolMemory > MaxSegmentSize THEN PoolMemory
                ELSE MaxSegmentSize) - 1)
Ids == 1..PoolSlots
\* Element values; every element is one byte (dtype uint8).
Bytes == {0, 1}

(* ----------------------------- variables ------------------------------- *)

VARIABLES
    \* SlabAllocator fields
    segment_size,        \* self._segment.size
    slab_size,           \* self._slab_size
    object_size,         \* self._object_size
    free_objects,        \* self._free_objects (deque, left = head)
    partial_slabs,       \* self._partial_slabs
    full_slabs,          \* self._full_slabs
    empty_slabs,         \* self._empty_slabs
    allocation_count,    \* self._allocation_count
    deallocation_count,  \* self._deallocation_count
    \* what the callers of the allocator hold
    live,                \* offset -> number of callers holding it
    alloc_ok_calls,      \* number of allocate_aligned calls that returned
    alloc_after_dealloc, \* an allocation succeeded after some deallocation
    lastCall,            \* the last allocator call made and its outcome
    \* environment and pool configuration
    HAS_LZ4,             \* codec.HAS_LZ4 / pool.HAS_LZ4: lz4 is installed
    compression_enabled, \* TensorPool._compression_enabled
    \* tensor engine state
    mem,                 \* the bytes of the pool's segment
    compression_cache,   \* TensorCodec._compression_cache: shape -> ratio
    tensors,             \* TensorRegistry._tensors (ids registered)
    refs,                \* id -> TensorReference fields
    \* what the callers of the engine hold and did
    handles,             \* ids for which get_tensor returned a handle
    hist,                \* id -> buffer shared, buffers set, set() called
    refCall,             \* the last engine call made and its outcome
    calls,               \* number of engine calls made
    \* TensorRegistry bookkeeping and the clock
    now,                 \* time.perf_counter()
    lru_cache,           \* TensorRegistry._lru_cache: id -> time of last access
    cleanup_queue,       \* TensorRegistry._cleanup_queue: <<time, id>> entries
    \* TensorManager and the resources its pool owns
    closed,              \* TensorManager._closed
    collected,           \* the manager and its pool have been finalized
    cleanup_runs,        \* number of runs of TensorPool.cleanup_resources
    segment_kind,        \* the class of the segment
    segment_open,        \* the segment's mapping exists (self._mmap)
    segment_releases,    \* number of times the mapping was closed
    segCall,             \* the last direct segment call and its outcome
    regCall,             \* the last direct registry call and its outcome
    descCall,            \* the last descriptor constructed and its sizes
    \* threads inside the registry's methods
    threads,             \* thread -> the method it runs and its locals
    read_lock,           \* owner of TensorRegistry._read_lock
    write_lock,          \* owner of TensorRegistry._write_lock
    \* the background loops
    loops,               \* loop -> its position, passes made, errors swallowed
    shutdown_event,      \* TensorRegistry._shutdown_event is set
    \* cuda_kernel_manager.memory: MemoryAllocator fields
    allocator,           \* the class of the allocator constructed, or "none"
    total_size,          \* self._total_size
    allocated_size,      \* self._allocated_size
    free_blocks,         \* self._free_blocks: list of <<offset, size>>
    allocated_blocks,    \* self._allocated_blocks: offset -> size
    min_size,            \* BuddyAllocator._min_size
    free_lists,          \* BuddyAllocator._free_lists: size -> set of offsets
    gpuCall              \* the last call on the allocator and its outcome

allocVars == <<free_objects, partial_slabs, full_slabs, empty_slabs,
               allocation_count, deallocation_count>>
configVars == <<segment_size, slab_size, object_size>>
callerVars == <<live, alloc_ok_calls, alloc_after_dealloc>>
envVars == <<HAS_LZ4, compression_enabled>>
engineVars == <<mem, compression_cache, tensors, refs>>
userVars == <<handles, hist, refCall, calls>>
registryVars == <<now, lru_cache, cleanup_queue>>
managerVars == <<closed, collected, cleanup_runs>>
segmentVars == <<segment_kind, segment_open, segment_releases>>
gpuVars == <<allocator, total_size, allocated_size, free_blocks,
             allocated_blocks, min_size, free_lists, gpuCall>>
threadVars == <<threads, read_lock, write_lock, loops, shutdown_event,
                gpuVars>>
directVars == <<segCall, regCall, descCall, threadVars>>
ownerVars == <<managerVars, segmentVars, directVars>>
poolVars == <<envVars, engineVars, userVars, registryVars, managerVars,
              segmentVars, directVars>>
vars == <<configVars, allocVars, callerVars, lastCall, poolVars>>

(* --------------------------- SlabAllocator ----------------------------- *)

Max(a, b) == IF a >= b THEN a ELSE b

\* self._objects_per_slab = max(1, slab_size // object_size)
objects_per_slab == Max(1, slab_size \div object_size)

\* The allocator's mutable fields as one value.
Allocator ==
    [free_objects |-> free_objects, partial_slabs |-> partial_slabs,
     full_slabs |-> full_slabs, empty_slabs |-> empty_slabs,
     allocation_count |-> allocation_count,
     deallocation_count |-> deallocation_count]

TotalSlabs(a) ==
    Cardinality(a.partial_slabs) + Cardinality(a.full_slabs)
        + Cardinality(a.empty_slabs)

\* for i in range(objects_per_slab): slab_offset + i * object_size
SlabObjects(slab_offset) ==
    [i \in 1..objects_per_slab |-> slab_offset + (i - 1) * object_size]

\* _create_slab with the capacity test applied to the slab's start only.
CreateSlabChecksStartOnly(a) ==
    LET slab_offset == TotalSlabs(a) * slab_size
    IN  IF slab_offset > segment_size
        THEN [ok |-> FALSE, slab |-> -1, a |-> a]
        ELSE [ok |-> TRUE, slab |-> slab_offset,
              a |-> [a EXCEPT !.free_objects = @ \o SlabObjects(slab_offset)]]

\* _create_slab: the new slab's offset and the allocator afterwards, or a
\* failure that leaves the allocator as it was.
CreateSlab(a) ==
    LET slab_offset == TotalSlabs(a) * slab_size
    IN  IF slab_offset + slab_size > segment_size
        THEN [ok |-> FALSE, slab |-> -1, a |-> a]
        ELSE [ok |-> TRUE, slab |-> slab_offset,
              a |-> [a EXCEPT !.free_objects = @ \o SlabObjects(slab_offset)]]

\* The refill step of allocate_aligned when the free list is empty: the set
\* of outcomes (set.pop() takes an arbitrary empty slab).
Refill(a) ==
    IF a.empty_slabs # {}
    THEN { [ok |-> TRUE,
            a |-> [a EXCEPT !.empty_slabs = @ \ {s},
                            !.partial_slabs = @ \cup {s},
                            !.free_objects = @ \o SlabObjects(s)]]
           : s \in a.empty_slabs }
    ELSE LET c == CreateSlab(a)
         IN  IF c.ok
             THEN { [ok |-> TRUE,
                     a |-> [c.a EXCEPT !.partial_slabs = @ \cup {c.slab}]] }
             ELSE { [ok |-> FALSE, a |-> c.a] }

\* The size check of allocate_aligned, off by one.
ExceedsObjectSizeOffByOne(size) == size > object_size + 1

\* The size check at the head of allocate_aligned.
ExceedsObjectSize(size) == size > object_size

\* allocate_aligned(size): the set of possible outcomes.
AllocateAligned(a, size) ==
    IF ExceedsObjectSize(size)
    THEN { [result |-> "AllocationFailure", offset |-> -1, a |-> a] }
    ELSE LET filled == IF a.free_objects = <<>>
                       THEN Refill(a)
                       ELSE { [ok |-> TRUE, a |-> a] }
         IN  { IF (~f.ok) \/ f.a.free_objects = <<>>
               THEN [result |-> "AllocationFailure", offset |-> -1, a |-> f.a]
               ELSE [result |-> "ok", offset |-> Head(f.a.free_objects),
                     a |-> [f.a EXCEPT !.free_objects = Tail(@),
                                       !.allocation_count = @ + 1]]
               : f \in filled }

\* Number of entries of the free list that lie in the slab at slab_offset.
FreeCountInSlab(free, slab_offset) ==
    Cardinality({ i \in 1..Len(free) :
                    slab_offset <= free[i] /\ free[i] < slab_offset + slab_size })

\* deallocate_fast that reclassifies full slabs only.
DeallocateFastFullOnly(a, offset) ==
    LET free == Append(a.free_objects, offset)
        slab_offset == (offset \div slab_size) * slab_size
        a1 == [a EXCEPT !.free_objects = free,
                        !.deallocation_count = @ + 1]
    IN  IF FreeCountInSlab(free, slab_offset) = objects_per_slab
           /\ slab_offset \in a.full_slabs
        THEN [a1 EXCEPT !.full_slabs = @ \ {slab_offset},
                        !.empty_slabs = @ \cup {slab_offset}]
        ELSE a1

\* deallocate_fast(offset)
DeallocateFast(a, offset) ==
    LET free == Append(a.free_objects, offset)
        slab_offset == (offset \div slab_size) * slab_size
        a1 == [a EXCEPT !.free_objects = free,
                        !.deallocation_count = @ + 1]
    IN  IF FreeCountInSlab(free, slab_offset) = objects_per_slab
        THEN IF slab_offset \in a.partial_slabs
             THEN [a1 EXCEPT !.partial_slabs = @ \ {slab_offset},
                             !.empty_slabs = @ \cup {slab_offset}]
             ELSE IF slab_offset \in a.full_slabs
                  THEN [a1 EXCEPT !.full_slabs = @ \ {slab_offset},
                                  !.empty_slabs = @ \cup {slab_offset}]
                  ELSE a1
        ELSE a1

\* get_utilization_stats that leaves the empty slabs out of the capacity.
GetUtilizationStatsNoEmpty(a) ==
    LET total_objects == (Cardinality(a.partial_slabs)
                           + Cardinality(a.full_slabs)) * objects_per_slab
        allocated_objects == a.allocation_count - a.deallocation_count
    IN  [utilization |-> IF total_objects > 0
                         THEN <<allocated_objects, total_objects>>
                         ELSE <<0, 1>>,
         allocation_count |-> a.allocation_count,
         deallocation_count |-> a.deallocation_count,
         total_slabs |-> TotalSlabs(a),
         partial_slabs |-> Cardinality(a.partial_slabs),
         full_slabs |-> Cardinality(a.full_slabs),
         empty_slabs |-> Cardinality(a.empty_slabs)]

\* get_utilization_stats; a ratio is the pair <<numerator, denominator>>.
GetUtilizationStats(a) ==
    LET total_objects == TotalSlabs(a) * objects_per_slab
        allocated_objects == a.allocation_count - a.deallocation_count
    IN  [utilization |-> IF total_objects > 0
                         THEN <<allocated_objects, total_objects>>
                         ELSE <<0, 1>>,
         allocation_count |-> a.allocation_count,
         deallocation_count |-> a.deallocation_count,
         total_slabs |-> TotalSlabs(a),
         partial_slabs |-> Cardinality(a.partial_slabs),
         full_slabs |-> Cardinality(a.full_slabs),
         empty_slabs |-> Cardinality(a.empty_slabs)]

\* SlabAllocator.__init__: empty sets, then the initial slab is created and
\* added to the partial set.  Construction raises when the first slab does
\* not fit the segment, so such configurations are not states of the program.
NewAllocator ==
    LET a0 == [free_objects |-> <<>>, partial_slabs |-> {}, full_slabs |-> {},
               empty_slabs |-> {}, allocation_count |-> 0,
               deallocation_count |-> 0]
        c == CreateSlab(a0)
    IN  [c.a EXCEPT !.partial_slabs = @ \cup {c.slab}]

SetAllocator(a) ==
    /\ free_objects' = a.free_objects
    /\ partial_slabs' = a.partial_slabs
    /\ full_slabs' = a.full_slabs
    /\ empty_slabs' = a.empty_slabs
    /\ allocation_count' = a.allocation_count
    /\ deallocation_count' = a.deallocation_count

(* ------------------------------ segment -------------------------------- *)

Min(a, b) == IF a <= b THEN a ELSE b

\* Python's adjustment of a slice index to a sequence of segment_size bytes:
\* a negative index counts from the end, and the result is clamped.
AdjustIndex(i) ==
    IF i < 0 THEN Max(i + segment_size, 0) ELSE Min(i, segment_size)

\* read_vectorized: the slice mmap[offset:offset + size].
ReadVectorized(memory, offset, size) ==
    LET start == AdjustIndex(offset)
        stop == AdjustIndex(offset + size)
    IN  [i \in 1..(stop - start) |-> memory[start + i - 1]]

\* write_vectorized: the slice assignment mmap[offset:offset + len(data)] =
\* data, which raises when the slice and the data differ in length.
WriteVectorized(memory, offset, data) ==
    LET start == AdjustIndex(offset)
        stop == AdjustIndex(offset + Len(data))
    IN  IF Max(stop - start, 0) # Len(data)
        THEN [ok |-> FALSE, memory |-> memory]
        ELSE [ok |-> TRUE,
              memory |-> [o \in DOMAIN memory |->
                            IF start <= o /\ o < start + Len(data)
                            THEN data[o - start + 1] ELSE memory[o]]]

\* The classes of segment: in memory/segments.py HugePagesSegment (over an
\* mmap) and NumaAwareSharedMemory (over SharedMemory.buf), in the package
\* memory/segments/ HugePagesSegment, PosixShmSegment and NumaAwareSegment
\* (all over an mmap, with the same checks) and OptimizedBuffer.
ModuleKinds == {"module_mmap", "module_shm"}
SegmentKinds == ModuleKinds \cup {"package", "buffer"}

\* read_vectorized(offset, size) of a segment of the given class.
SegmentRead(kind, open, memory, offset, size) ==
    IF kind \in ModuleKinds
    THEN IF ~open THEN [result |-> "TypeError", data |-> <<>>]
         ELSE [result |-> "ok", data |-> ReadVectorized(memory, offset, size)]
    ELSE IF ~open THEN [result |-> "RuntimeError", data |-> <<>>]
    ELSE IF offset + size > segment_size
    THEN [result |-> "ValueError", data |-> <<>>]
    ELSE [result |-> "ok", data |-> ReadVectorized(memory, offset, size)]

\* ctypes.memmove(address of the buffer + offset, data, len(data)): the bytes
\* that land inside the buffer.
Memmove(memory, offset, data) ==
    [o \in DOMAIN memory |->
        IF offset <= o /\ o < offset + Len(data)
        THEN data[o - offset + 1] ELSE memory[o]]

\* write_vectorized(offset, data) of a segment of the given class.
SegmentWrite(kind, open, memory, offset, data) ==
    LET w == WriteVectorized(memory, offset, data)
        sliced == IF w.ok THEN [result |-> "ok", memory |-> w.memory]
                  ELSE [result |-> IF kind = "module_shm" THEN "ValueError"
                                   ELSE "IndexError",
                        memory |-> memory]
    IN  IF kind \in ModuleKinds
        THEN IF ~open THEN [result |-> "TypeError", memory |-> memory]
             ELSE sliced
        ELSE IF ~open THEN [result |-> "RuntimeError", memory |-> memory]
        ELSE IF offset + Len(data) > segment_size
        THEN [result |-> "ValueError", memory |-> memory]
        ELSE IF kind = "package" THEN sliced
        ELSE [result |-> "ok", memory |-> Memmove(memory, offset, data)]

(* ------------------------------- codec --------------------------------- *)

IsRun(data) == \A i \in 1..Len(data) : data[i] = data[1]

\* lz4.frame.compress: a frame of one header byte that carries the kind of
\* block and the content size, followed by the block. A run of equal bytes
\* compresses into the header alone (negative: the length and the byte);
\* anything else is stored raw after a header of 2 + length.
Lz4Compress(data) ==
    IF IsRun(data) THEN <<0 - (2 * Len(data) + data[1])>>
    ELSE <<2 + Len(data)>> \o data

\* lz4.frame.decompress: decodes the first frame and ignores what follows
\* it; a bad header or a frame cut short raises RuntimeError.
Lz4Decompress(data) ==
    IF data = <<>> THEN [ok |-> FALSE, data |-> <<>>]
    ELSE LET h == data[1]
         IN  IF h < -1
             THEN [ok |-> TRUE,
                   data |-> [i \in 1..((0 - h) \div 2) |-> (0 - h) % 2]]
             ELSE IF h > 2 /\ Len(data) >= 1 + (h - 2)
                  THEN [ok |-> TRUE, data |-> SubSeq(data, 2, 1 + (h - 2))]
                  ELSE [ok |-> FALSE, data |-> <<>>]

\* encode_parallel(tensor, compression): the tensor's bytes, compressed when
\* the compression is LZ4 and lz4 is installed.
EncodeParallel(tensor, compression) ==
    IF compression = "LZ4" /\ HAS_LZ4 THEN Lz4Compress(tensor) ELSE tensor

\* decode_parallel(data, descriptor): decompress by the descriptor's
\* compression type, check the length against raw_byte_size, rebuild the
\* tensor with the descriptor's shape.
DecodeParallel(data, compression, raw_byte_size) ==
    LET raw == IF compression = "LZ4" /\ HAS_LZ4
               THEN Lz4Decompress(data)
               ELSE [ok |-> TRUE, data |-> data]
    IN  IF ~raw.ok THEN [result |-> "RuntimeError", tensor |-> <<>>]
        ELSE IF Len(raw.data) # raw_byte_size
             THEN [result |-> "TensorCorruption", tensor |-> <<>>]
             ELSE [result |-> "ok", tensor |-> raw.data]

\* _compute_checksum_fast: the 8-byte BLAKE2b digest of the bytes, modelled
\* as a collision-free positional code of the byte sequence.
RECURSIVE ComputeChecksumFast(_)
ComputeChecksumFast(data) ==
    IF data = <<>> THEN 1
    ELSE ComputeChecksumFast(SubSeq(data, 1, Len(data) - 1)) * 4
             + data[Len(data)] + 1

\* compute_checksum_simd(tensor)
ComputeChecksumSimd(tensor) == ComputeChecksumFast(tensor)

\* validate_integrity_fast(data, expected_checksum): returns True; the
\* comparison is commented out in the source.
ValidateIntegrityFast(data, expected_checksum) == TRUE

\* estimate_compression_ratio(tensor): the cached ratio of the tensor's
\* shape, or compressed/original of a sample of at most 1000 elements
\* (lz4 when installed, zlib otherwise; both modelled by the same frame).
SampleRatio(tensor) ==
    LET sample == SubSeq(tensor, 1, Min(1000, Len(tensor)))
    IN  <<Len(Lz4Compress(sample)), Len(sample)>>

EstimateCompressionRatio(cache, tensor) ==
    IF cache[Len(tensor)] # <<>> THEN cache[Len(tensor)]
    ELSE SampleRatio(tensor)

\* ratio < 0.8
BelowThreshold(ratio) == ratio[1] * 10 < ratio[2] * 8

(* ---------------------------- descriptor ------------------------------- *)

RECURSIVE BitAnd(_, _)
BitAnd(x, y) ==
    IF x = 0 \/ y = 0 THEN 0
    ELSE (x % 2) * (y % 2) + 2 * BitAnd(x \div 2, y \div 2)

\* raw_byte_size = numel * element_size, for one-byte elements
RawByteSize(desc) == desc.shape

\* Rounding up that adds a whole alignment before it masks.
RoundUpPastMultiple(raw_size, alignment) ==
    LET t == raw_size + alignment
    IN  t - BitAnd(t, alignment - 1)

\* (raw_size + alignment - 1) & ~(alignment - 1) on Python's unbounded
\* integers: the low bits selected by alignment - 1 are cleared.
RoundUp(raw_size, alignment) ==
    LET t == raw_size + alignment - 1
    IN  t - BitAnd(t, alignment - 1)

\* aligned_byte_size
AlignedByteSize(desc) == RoundUp(RawByteSize(desc), desc.alignment)

\* numel: the product of the dimensions, taken from the left.
RECURSIVE Numel(_)
Numel(shape) ==
    IF shape = <<>> THEN 1
    ELSE Numel(SubSeq(shape, 1, Len(shape) - 1)) * shape[Len(shape)]

\* element_size: the table of dtype sizes, 4 for a dtype it does not list.
ElementSize(dtype) ==
    IF dtype \in {"torch.bool", "torch.uint8", "torch.int8"} THEN 1
    ELSE IF dtype \in {"torch.int16", "torch.float16", "torch.bfloat16"} THEN 2
    ELSE IF dtype \in {"torch.int64", "torch.float64", "torch.complex64"} THEN 8
    ELSE IF dtype = "torch.complex128" THEN 16
    ELSE 4

\* TensorDescriptor(shape, dtype, alignment): __post_init__ and the derived
\* sizes of the descriptor constructed.
NewDescriptor(shape, dtype, alignment) ==
    IF shape = <<>> \/ \E i \in 1..Len(shape) : shape[i] <= 0
    THEN [result |-> "ValueError: shape", raw_byte_size |-> 0,
          aligned_byte_size |-> 0]
    ELSE IF alignment <= 0 \/ BitAnd(alignment, alignment - 1) # 0
    THEN [result |-> "ValueError: alignment", raw_byte_size |-> 0,
          aligned_byte_size |-> 0]
    ELSE [result |-> "ok",
          raw_byte_size |-> Numel(shape) * ElementSize(dtype),
          aligned_byte_size |-> RoundUp(Numel(shape) * ElementSize(dtype),
                                        alignment)]

(* -------------------------- TensorReference ---------------------------- *)

NoRef == [state |-> "NONE"]
NoTensor == [alive |-> FALSE, tensor |-> <<>>]
LiveTensor(tensor) == [alive |-> TRUE, tensor |-> tensor]

\* TensorReference.__init__
NewReference(desc, offset) ==
    [descriptor |-> desc, offset |-> offset, state |-> "ALLOCATED",
     weak_tensor |-> NoTensor, access_count |-> 0, last_access |-> now]

\* materialize_optimized without the fast path: storage is read whether or
\* not the cached tensor is alive.
MaterializeAlwaysReads(r, memory, valid) ==
    LET r1 == [r EXCEPT !.access_count = @ + 1, !.last_access = now]
    IN  IF FALSE
        THEN [result |-> "ok", tensor |-> r1.weak_tensor.tensor,
              path |-> "cached", ref |-> [r1 EXCEPT !.state = "ACTIVE"]]
        ELSE IF r1.state = "DETACHED"
        THEN [result |-> "TensorError: detached", tensor |-> <<>>,
              path |-> "none", ref |-> r1]
        ELSE
        LET data == ReadVectorized(memory, r1.offset,
                                   RawByteSize(r1.descriptor))
        IN  IF ~valid
            THEN [result |-> "TensorCorruption", tensor |-> <<>>,
                  path |-> "storage",
                  ref |-> [r1 EXCEPT !.state = "CORRUPTED"]]
            ELSE
            LET dec == DecodeParallel(data, r1.descriptor.compression_type,
                                      RawByteSize(r1.descriptor))
            IN  IF dec.result # "ok"
                THEN [result |-> dec.result, tensor |-> <<>>,
                      path |-> "storage",
                      ref |-> [r1 EXCEPT !.state = "MATERIALIZING"]]
                ELSE [result |-> "ok", tensor |-> dec.tensor,
                      path |-> "storage",
                      ref |-> [r1 EXCEPT !.state = "ACTIVE",
                                  !.weak_tensor = LiveTensor(dec.tensor)]]

\* materialize_optimized with a codec whose validate_integrity_fast answers
\* valid: the outcome and the reference afterwards.
MaterializeWith(r, memory, valid) ==
    LET r1 == [r EXCEPT !.access_count = @ + 1, !.last_access = now]
    IN  IF r1.weak_tensor.alive
        THEN [result |-> "ok", tensor |-> r1.weak_tensor.tensor,
              path |-> "cached", ref |-> [r1 EXCEPT !.state = "ACTIVE"]]
        ELSE IF r1.state = "DETACHED"
        THEN [result |-> "TensorError: detached", tensor |-> <<>>,
              path |-> "none", ref |-> r1]
        ELSE
        LET data == ReadVectorized(memory, r1.offset,
                                   RawByteSize(r1.descriptor))
        IN  IF ~valid
            THEN [result |-> "TensorCorruption", tensor |-> <<>>,
                  path |-> "storage",
                  ref |-> [r1 EXCEPT !.state = "CORRUPTED"]]
            ELSE
            LET dec == DecodeParallel(data, r1.descriptor.compression_type,
                                      RawByteSize(r1.descriptor))
            IN  IF dec.result # "ok"
                THEN [result |-> dec.result, tensor |-> <<>>,
                      path |-> "storage",
                      ref |-> [r1 EXCEPT !.state = "MATERIALIZING"]]
                ELSE [result |-> "ok", tensor |-> dec.tensor,
                      path |-> "storage",
                      ref |-> [r1 EXCEPT !.state = "ACTIVE",
                                  !.weak_tensor = LiveTensor(dec.tensor)]]

\* materialize_optimized with the pool's TensorCodec.
MaterializeOptimized(r, memory) ==
    MaterializeWith(r, memory,
        ValidateIntegrityFast(
            ReadVectorized(memory, r.offset, RawByteSize(r.descriptor)),
            r.descriptor.checksum))

\* The size test of persist_optimized, off by one.
ExceedsAllocatedOffByOne(encoded, desc) ==
    Len(encoded) > AlignedByteSize(desc) + 1

\* if len(encoded) > self._descriptor.aligned_byte_size
ExceedsAllocated(encoded, desc) == Len(encoded) > AlignedByteSize(desc)

\* persist_optimized without the test for a detached reference.
PersistIgnoringDetached(r, memory, tensor) ==
    IF FALSE
    THEN [result |-> "TensorError: detached", ref |-> r, memory |-> memory]
    ELSE
    LET new_checksum == ComputeChecksumSimd(tensor)
        encoded == EncodeParallel(tensor, r.descriptor.compression_type)
        r1 == [r EXCEPT !.state = "PERSISTING"]
    IN  IF ExceedsAllocated(encoded, r.descriptor)
        THEN [result |-> "TensorError: oversize", ref |-> r1,
              memory |-> memory]
        ELSE
        LET w == WriteVectorized(memory, r.offset, encoded)
        IN  IF ~w.ok
            THEN [result |-> "IndexError", ref |-> r1, memory |-> memory]
            ELSE [result |-> "ok", memory |-> w.memory,
                  ref |-> [r1 EXCEPT !.descriptor.checksum = new_checksum,
                                     !.weak_tensor = LiveTensor(tensor),
                                     !.state = "ACTIVE"]]

\* persist_optimized(tensor): the outcome, the reference and the segment
\* bytes afterwards.
PersistOptimized(r, memory, tensor) ==
    IF r.state = "DETACHED"
    THEN [result |-> "TensorError: detached", ref |-> r, memory |-> memory]
    ELSE
    LET new_checksum == ComputeChecksumSimd(tensor)
        encoded == EncodeParallel(tensor, r.descriptor.compression_type)
        r1 == [r EXCEPT !.state = "PERSISTING"]
    IN  IF ExceedsAllocated(encoded, r.descriptor)
        THEN [result |-> "TensorError: oversize", ref |-> r1,
              memory |-> memory]
        ELSE
        LET w == WriteVectorized(memory, r.offset, encoded)
        IN  IF ~w.ok
            THEN [result |-> "IndexError", ref |-> r1, memory |-> memory]
            ELSE [result |-> "ok", memory |-> w.memory,
                  ref |-> [r1 EXCEPT !.descriptor.checksum = new_checksum,
                                     !.weak_tensor = LiveTensor(tensor),
                                     !.state = "ACTIVE"]]

\* detach_gracefully that keeps the weak reference to the cached tensor.
DetachKeepsWeakTensor(r) == [r EXCEPT !.state = "DETACHED"]

\* detach_gracefully
DetachGracefully(r) ==
    [r EXCEPT !.weak_tensor = NoTensor, !.state = "DETACHED"]

\* _on_tensor_deleted, run when the cached tensor's last holder drops it:
\* from then on the weak reference yields nothing.
OnTensorDeleted(r) ==
    [r EXCEPT !.weak_tensor = NoTensor,
              !.state = IF @ = "ACTIVE" THEN "CACHED" ELSE @]

(* --------------------------- TensorRegistry ---------------------------- *)

\* _lru_cache has no entry for the id.
NoTime == 0 - 1

\* TensorReference.is_valid
IsValid(r) == r.state \in {"ACTIVE", "CACHED"}

\* The registry's own fields; the references it maps to are in refs.
Registry ==
    [tensors |-> tensors, lru_cache |-> lru_cache,
     cleanup_queue |-> cleanup_queue]

SetRegistry(g) ==
    /\ tensors' = g.tensors
    /\ lru_cache' = g.lru_cache
    /\ cleanup_queue' = g.cleanup_queue

\* The entry of id leaves _tensors and _lru_cache, for every id of the set.
RemoveAll(g, ids) ==
    [g EXCEPT !.tensors = @ \ ids,
              !.lru_cache = [id \in DOMAIN @ |->
                                IF id \in ids THEN NoTime ELSE @[id]]]

\* remove_fast that leaves the id's time in _lru_cache.
RemoveFastKeepsLru(g, id) ==
    [removed |-> id \in g.tensors, g |-> [g EXCEPT !.tensors = @ \ {id}]]

\* remove_fast(tensor_id): whether an entry was removed, and the registry
\* afterwards.
RemoveFast(g, id) ==
    [removed |-> id \in g.tensors, g |-> RemoveAll(g, {id})]

\* The test with "and" in place of "or".
ExpirableOnlyIfBoth(r, cutoff_time) ==
    (~IsValid(r)) /\ r.last_access < cutoff_time

\* The test both cleanups apply to a registered reference.
Expirable(r, cutoff_time) == (~IsValid(r)) \/ r.last_access < cutoff_time

\* _trigger_cleanup with the references rs: pops the queue entries older
\* than the cut-off and removes those of them that are expirable.
TriggerCleanup(g, rs) ==
    LET cutoff_time == now - BackgroundMaxAge
        Keep(q) == q[1] >= cutoff_time
        popped == { g.cleanup_queue[i][2] :
                      i \in { j \in 1..Len(g.cleanup_queue) :
                                g.cleanup_queue[j][1] < cutoff_time } }
        expired_ids == { id \in popped :
                           id \in g.tensors /\ Expirable(rs[id], cutoff_time) }
    IN  RemoveAll([g EXCEPT !.cleanup_queue = SelectSeq(@, Keep)],
                  expired_ids)

\* cleanup_expired(max_age_seconds) with the references rs: the ids removed
\* and the registry afterwards; the call returns the number of ids.
CleanupExpired(g, rs, max_age_seconds) ==
    LET cutoff_time == now - max_age_seconds
        expired_ids == { id \in DOMAIN g.lru_cache :
                           /\ g.lru_cache[id] # NoTime
                           /\ g.lru_cache[id] < cutoff_time
                           /\ id \in g.tensors
                           /\ Expirable(rs[id], cutoff_time) }
    IN  [expired_ids |-> expired_ids, g |-> RemoveAll(g, expired_ids)]

\* get_optimized(tensor_id): a hit refreshes the id's time in _lru_cache.
GetOptimized(g, id) ==
    IF id \in g.tensors THEN [g EXCEPT !.lru_cache[id] = now] ELSE g

\* register_optimized(reference) for the reference rs[id]: the entry is
\* written whether or not the id was registered, and a queue longer than the
\* threshold runs the cleanup inline.
RegisterOptimized(g, rs, id) ==
    LET g1 == [g EXCEPT !.tensors = @ \cup {id},
                        !.lru_cache[id] = now,
                        !.cleanup_queue = Append(@, <<now, id>>)]
    IN  IF Len(g1.cleanup_queue) > CleanupThreshold
        THEN TriggerCleanup(g1, rs) ELSE g1

\* An optional argument: <<>> for None, <<v>> for the value v. Python takes
\* None, the empty tuple and the empty string as false.
None == <<>>
Some(v) == <<v>>
Truthy(opt, empty) == opt # None /\ opt[1] # empty

\* The shape, str(dtype) and str(device) of the tensors of the model:
\* one-dimensional uint8 tensors on the cpu.
ShapeOf(desc) == <<desc.shape>>
DtypeOf(desc) == "torch.uint8"
DeviceOf(desc) == "cpu"

\* get_tensor_by_criteria(shape, dtype, device): the ids of the references
\* returned.
GetTensorByCriteria(g, rs, shape, dtype, device) ==
    {id \in g.tensors :
        /\ IsValid(rs[id])
        /\ ~(Truthy(shape, <<>>) /\ ShapeOf(rs[id].descriptor) # shape[1])
        /\ ~(Truthy(dtype, "") /\ DtypeOf(rs[id].descriptor) # dtype[1])
        /\ ~(Truthy(device, "") /\ DeviceOf(rs[id].descriptor) # device[1])}

\* shutdown(): every registered reference is detached (in rs) and the maps
\* and the queue are cleared.
ShutdownRefs(g, rs) ==
    [id \in DOMAIN rs |->
        IF id \in g.tensors THEN DetachGracefully(rs[id]) ELSE rs[id]]

Shutdown(g) ==
    [tensors |-> {}, lru_cache |-> [id \in DOMAIN g.lru_cache |-> NoTime],
     cleanup_queue |-> <<>>]

(* ------------------- allocator under direct callers -------------------- *)

\* The tensors a caller hands to share or set: a one-element tensor, a
\* two-element tensor that compresses (a run), two that do not, and one that
\* is larger than a pool object.
Oversized == [i \in 1..(Alignment + 1) |-> 0]
TensorValues == {<<0>>, <<0, 0>>, <<0, 1>>, <<1, 0>>, Oversized}
Shapes == 1..(Alignment + 1)

NoHist == [shared |-> <<>>, sets |-> <<>>, set_called |-> FALSE,
           detached |-> "no"]
NoCall == [op |-> "init", id |-> 0, via |-> "none", result |-> "ok",
           tensor |-> <<>>, path |-> "none"]

NoSegCall == [op |-> "init", offset |-> 0, size |-> 0, result |-> "ok",
              data |-> <<>>]
\* The threads that call the registry, and a thread outside every method.
Threads == {"caller", "other"}
Idle == [pc |-> "idle", id |-> 0, time |-> 0, todo |-> {}, found |-> FALSE,
         holds |-> FALSE]
Free == "free"

\* The two background loops as their threads start them: the registry's
\* enters wait(timeout), the manager's is at the test of its while.
Loops == {"registry", "manager"}
NewLoop(l) ==
    [pc |-> IF l = "registry" THEN "waiting" ELSE "test", passes |-> 0,
     errors |-> 0]

\* No call made yet on an allocator of cuda_kernel_manager.memory.
NoGpuCall == [op |-> "init", size |-> 0, ptr |-> -1, result |-> "ok"]
NoDescCall == [op |-> "init", shape |-> <<>>, dtype |-> "", alignment |-> 0,
               result |-> "ok", raw_byte_size |-> 0, aligned_byte_size |-> 0]
NoRegCall == [op |-> "init", id |-> 0, max_age |-> 0, ok |-> TRUE,
              removed |-> {}, count |-> 0, at |-> 0, dup |-> FALSE]

\* TensorRegistry.__init__ / TensorCodec.__init__ / TensorManager.__init__
BookkeepingInit ==
    /\ compression_cache = [n \in Shapes |-> <<>>]
    /\ tensors = {}
    /\ refs = [id \in Ids |-> NoRef]
    /\ handles = {}
    /\ hist = [id \in Ids |-> NoHist]
    /\ refCall = NoCall
    /\ calls = 0
    /\ now = 0
    /\ lru_cache = [id \in Ids |-> NoTime]
    /\ cleanup_queue = <<>>
    /\ closed = FALSE
    /\ collected = FALSE
    /\ cleanup_runs = 0
    /\ segment_open = TRUE
    /\ segment_releases = 0
    /\ segCall = NoSegCall
    /\ regCall = NoRegCall
    /\ descCall = NoDescCall
    /\ threads = [t \in Threads |-> Idle]
    /\ read_lock = Free
    /\ write_lock = Free
    /\ loops = [l \in Loops |-> NewLoop(l)]
    /\ shutdown_event = FALSE
    /\ allocator = "none"
    /\ total_size = 0
    /\ allocated_size = 0
    /\ free_blocks = <<>>
    /\ allocated_blocks = <<>>
    /\ min_size = 0
    /\ free_lists = <<>>
    /\ gpuCall = NoGpuCall

\* TensorPool.__init__: the pool's segment, zero-filled, and the rest.
EngineInit ==
    /\ mem = [o \in 0..(PoolMemory - 1) |-> 0]
    /\ segment_kind = "package"
    /\ BookkeepingInit

SlabInit ==
    /\ HAS_LZ4 = FALSE
    /\ compression_enabled = FALSE
    /\ EngineInit
    /\ object_size \in ObjectSizes
    /\ slab_size \in SlabSizes
    /\ segment_size \in slab_size..MaxSegmentSize
    /\ free_objects = NewAllocator.free_objects
    /\ partial_slabs = NewAllocator.partial_slabs
    /\ full_slabs = {}
    /\ empty_slabs = {}
    /\ allocation_count = 0
    /\ deallocation_count = 0
    /\ live = [o \in Offsets |-> 0]
    /\ alloc_ok_calls = 0
    /\ alloc_after_dealloc = FALSE
    /\ lastCall = [op |-> "init", size |-> 0, result |-> "ok", offset |-> -1]

\* A caller calls allocate_aligned(size).
Allocate(size) ==
    /\ allocation_count < MaxAllocs
    /\ \E out \in AllocateAligned(Allocator, size) :
        /\ SetAllocator(out.a)
        /\ lastCall' = [op |-> "allocate", size |-> size,
                        result |-> out.result, offset |-> out.offset]
        /\ IF out.result = "ok"
           THEN /\ live' = [live EXCEPT ![out.offset] = @ + 1]
                /\ alloc_ok_calls' = alloc_ok_calls + 1
                /\ alloc_after_dealloc' =
                       (alloc_after_dealloc \/ deallocation_count > 0)
           ELSE UNCHANGED callerVars
    /\ UNCHANGED <<configVars, poolVars>>

\* A caller gives back an offset it holds.
Deallocate(offset) ==
    /\ live[offset] > 0
    /\ SetAllocator(DeallocateFast(Allocator, offset))
    /\ live' = [live EXCEPT ![offset] = @ - 1]
    /\ lastCall' = [op |-> "deallocate", size |-> 0, result |-> "ok",
                    offset |-> offset]
    /\ UNCHANGED <<configVars, alloc_ok_calls, alloc_after_dealloc, poolVars>>

SlabNext ==
    \/ \E size \in 1..(MaxObjectSize + 1) : Allocate(size)
    \/ \E offset \in Offsets : Deallocate(offset)

SlabSpec == SlabInit /\ [][SlabNext]_vars

(* ------------------------- reallocate on a slab ------------------------ *)

\* reallocate(offset, old_size, new_size, segment): the set of outcomes, each
\* with the offset returned, the allocator and the segment bytes afterwards.
Reallocate(a, memory, offset, old_size, new_size) ==
    IF new_size <= object_size
    THEN { [result |-> "ok", offset |-> offset, a |-> a, memory |-> memory] }
    ELSE { IF out.result # "ok"
           THEN [result |-> out.result, offset |-> -1, a |-> out.a,
                 memory |-> memory]
           ELSE LET data == ReadVectorized(memory, offset,
                                           Min(old_size, new_size))
                    w == WriteVectorized(memory, out.offset, data)
                IN  IF ~w.ok
                    THEN [result |-> "IndexError", offset |-> -1,
                          a |-> out.a, memory |-> memory]
                    ELSE [result |-> "ok", offset |-> out.offset,
                          a |-> DeallocateFast(out.a, offset),
                          memory |-> w.memory]
           : out \in AllocateAligned(a, new_size) }

\* A caller calls reallocate on an offset it holds.
ReallocateCall(offset, old_size, new_size) ==
    /\ live[offset] > 0
    /\ \E out \in Reallocate(Allocator, mem, offset, old_size, new_size) :
        /\ SetAllocator(out.a)
        /\ mem' = out.memory
        /\ lastCall' = [op |-> "reallocate", size |-> new_size,
                        result |-> out.result, offset |-> out.offset]
        /\ live' = IF out.result = "ok" /\ out.offset # offset
                   THEN [live EXCEPT ![offset] = @ - 1,
                                     ![out.offset] = @ + 1]
                   ELSE live
    /\ UNCHANGED <<configVars, alloc_ok_calls, alloc_after_dealloc, envVars,
                   compression_cache, tensors, refs, userVars, registryVars,
                   ownerVars>>

ReallocateNext ==
    \/ SlabNext
    \/ \E offset \in Offsets, old_size \in ObjectSizes,
          new_size \in 1..(MaxObjectSize + 1) :
           ReallocateCall(offset, old_size, new_size)

ReallocateSpec == SlabInit /\ [][ReallocateNext]_vars

(* ----------------------------- TensorPool ------------------------------ *)

\* TensorPool.__init__ with the slab allocator over the pool's segment:
\* SlabAllocator(segment, object size) with the default slab size, which
\* equals the object size.
Init ==
    /\ HAS_LZ4 \in BOOLEAN
    /\ compression_enabled \in BOOLEAN
    /\ object_size = PoolObjectSize
    /\ slab_size = PoolObjectSize
    /\ segment_size = PoolMemory
    /\ free_objects = NewAllocator.free_objects
    /\ partial_slabs = NewAllocator.partial_slabs
    /\ full_slabs = {}
    /\ empty_slabs = {}
    /\ allocation_count = 0
    /\ deallocation_count = 0
    /\ live = [o \in Offsets |-> 0]
    /\ alloc_ok_calls = 0
    /\ alloc_after_dealloc = FALSE
    /\ lastCall = [op |-> "init", size |-> 0, result |-> "ok", offset |-> -1]
    /\ EngineInit

Call(op, id, via, result, tensor, path) ==
    [op |-> op, id |-> id, via |-> via, result |-> result,
     tensor |-> tensor, path |-> path]

\* One more call on the engine.
Called == calls < MaxCalls /\ calls' = calls + 1

\* _create_descriptor(tensor), then the choice of the compression type in
\* share_tensor.
CreateDescriptor(tensor) ==
    [shape |-> Len(tensor), checksum |-> ComputeChecksumSimd(tensor),
     compression_type |-> "NONE", alignment |-> Alignment]

ChooseCompression(cache, tensor) ==
    IF compression_enabled
          /\ BelowThreshold(EstimateCompressionRatio(cache, tensor))
          /\ HAS_LZ4
    THEN "LZ4" ELSE "NONE"

\* The id of the next descriptor (uuid4: never used before).
NextId == Cardinality({ id \in Ids : refs[id] # NoRef }) + 1

\* TensorPool.share_tensor(tensor)
ShareTensor(tensor) ==
    LET cache1 == IF compression_enabled
                  THEN [compression_cache EXCEPT ![Len(tensor)] =
                            EstimateCompressionRatio(compression_cache, tensor)]
                  ELSE compression_cache
        desc == [CreateDescriptor(tensor) EXCEPT !.compression_type =
                     ChooseCompression(compression_cache, tensor)]
    IN  /\ Called
        /\ compression_cache' = cache1
        /\ \E out \in AllocateAligned(Allocator, AlignedByteSize(desc)) :
            /\ SetAllocator(out.a)
            /\ lastCall' = [op |-> "allocate",
                            size |-> AlignedByteSize(desc),
                            result |-> out.result, offset |-> out.offset]
            /\ IF out.result # "ok"
               THEN /\ refCall' = Call("share", 0, "none",
                                       "AllocationFailure", <<>>, "none")
                    /\ UNCHANGED <<mem, tensors, refs, hist, callerVars,
                                   lru_cache, cleanup_queue>>
               ELSE
               LET w == WriteVectorized(mem, out.offset,
                            EncodeParallel(tensor, desc.compression_type))
               IN  /\ live' = [live EXCEPT ![out.offset] = @ + 1]
                   /\ alloc_ok_calls' = alloc_ok_calls + 1
                   /\ UNCHANGED alloc_after_dealloc
                   /\ IF (~w.ok) \/ NextId \notin Ids
                      THEN /\ refCall' = Call("share", 0, "none",
                                              "IndexError", <<>>, "none")
                           /\ UNCHANGED <<mem, tensors, refs, hist,
                                          lru_cache, cleanup_queue>>
                      ELSE /\ mem' = w.memory
                           /\ refs' = [refs EXCEPT ![NextId] =
                                  [NewReference(desc, out.offset)
                                       EXCEPT !.state = "ACTIVE"]]
                           /\ SetRegistry(RegisterOptimized(Registry, refs',
                                                            NextId))
                           /\ hist' = [hist EXCEPT ![NextId].shared = tensor]
                           /\ refCall' = Call("share", NextId, "none",
                                              "ok", <<>>, "none")
        /\ UNCHANGED <<configVars, envVars, handles, now, ownerVars>>

\* TensorPool.get_tensor(tensor_id): a new handle on the registered
\* reference, or None.
GetTensor(id) ==
    /\ Called
    /\ SetRegistry(GetOptimized(Registry, id))
    /\ handles' = IF id \in tensors THEN handles \cup {id} ELSE handles
    /\ refCall' = Call("get_tensor", id, "none",
                       IF id \in tensors THEN "handle" ELSE "None",
                       <<>>, "none")
    /\ UNCHANGED <<configVars, allocVars, callerVars, lastCall, envVars,
                   mem, compression_cache, refs, hist, now, ownerVars>>

\* The caller holds a handle on id: the one share returned, or one that
\* get_tensor returned.
HoldsHandle(id, via) ==
    /\ refs[id] # NoRef
    /\ via = "get_tensor" => id \in handles

\* SharedTensor.get() through a handle
Get(id, via) ==
    /\ HoldsHandle(id, via)
    /\ Called
    /\ LET out == MaterializeOptimized(refs[id], mem)
       IN  /\ refs' = [refs EXCEPT ![id] = out.ref]
           /\ refCall' = Call("get", id, via, out.result, out.tensor, out.path)
    /\ UNCHANGED <<configVars, allocVars, callerVars, lastCall, envVars,
                   mem, compression_cache, tensors, handles, hist,
                   registryVars, ownerVars>>

\* SharedTensor.set(tensor) through a handle
Set(id, tensor) ==
    /\ HoldsHandle(id, "share")
    /\ Called
    /\ LET out == PersistOptimized(refs[id], mem, tensor)
       IN  /\ refs' = [refs EXCEPT ![id] = out.ref]
           /\ mem' = out.memory
           /\ hist' = [hist EXCEPT
                  ![id].set_called = TRUE,
                  ![id].sets = IF out.result = "ok"
                               THEN Append(@, tensor) ELSE @]
           /\ refCall' = Call("set", id, "none", out.result, <<>>, "none")
    /\ UNCHANGED <<configVars, allocVars, callerVars, lastCall, envVars,
                   compression_cache, tensors, handles, registryVars,
                   ownerVars>>

\* SharedTensor.detach_optimized() through a handle
Detach(id) ==
    /\ HoldsHandle(id, "share")
    /\ Called
    /\ refs' = [refs EXCEPT ![id] = DetachGracefully(@)]
    /\ hist' = [hist EXCEPT ![id].detached =
                   IF @ # "no" THEN @
                   ELSE IF refs[id].weak_tensor.alive THEN "with_cache"
                        ELSE "without_cache"]
    /\ refCall' = Call("detach", id, "none", "ok", <<>>, "none")
    /\ UNCHANGED <<configVars, allocVars, callerVars, lastCall, envVars,
                   mem, compression_cache, tensors, handles, registryVars,
                   ownerVars>>

\* The last holder of the cached tensor drops it; the weak reference's
\* callback _on_tensor_deleted runs.
Evict(id) ==
    /\ refs[id] # NoRef
    /\ refs[id].weak_tensor.alive
    /\ Called
    /\ refs' = [refs EXCEPT ![id] = OnTensorDeleted(@)]
    /\ refCall' = Call("evict", id, "none", "ok", <<>>, "none")
    /\ UNCHANGED <<configVars, allocVars, callerVars, lastCall, envVars,
                   mem, compression_cache, tensors, handles, hist,
                   registryVars, ownerVars>>

\* The bytes the last share or set of id put into its slot.
LastValue(id) ==
    IF hist[id].sets = <<>> THEN hist[id].shared
    ELSE hist[id].sets[Len(hist[id].sets)]
ExpectedStored(id) ==
    EncodeParallel(LastValue(id), refs[id].descriptor.compression_type)
Stored(id) ==
    ReadVectorized(mem, refs[id].offset, Len(ExpectedStored(id)))

\* Another process that maps the segment overwrites one byte of the data
\* stored for id.
Tamper(id, o, b) ==
    /\ refs[id] # NoRef
    /\ Stored(id) = ExpectedStored(id)
    /\ refs[id].offset <= o
    /\ o < refs[id].offset + Len(ExpectedStored(id))
    /\ mem[o] # b
    /\ Called
    /\ mem' = [mem EXCEPT ![o] = b]
    /\ refCall' = Call("tamper", id, "none", "ok", <<>>, "none")
    /\ UNCHANGED <<configVars, allocVars, callerVars, lastCall, envVars,
                   compression_cache, tensors, refs, handles, hist,
                   registryVars, ownerVars>>

Vias == {"share", "get_tensor"}

Next ==
    \/ \E tensor \in TensorValues : ShareTensor(tensor)
    \/ \E id \in Ids : GetTensor(id)
    \/ \E id \in Ids, via \in Vias : Get(id, via)
    \/ \E id \in Ids, tensor \in TensorValues : Set(id, tensor)
    \/ \E id \in Ids : Detach(id)
    \/ \E id \in Ids : Evict(id)

Spec == Init /\ [][Next]_vars

TamperNext ==
    \/ Next
    \/ \E id \in Ids, o \in 0..(PoolMemory - 1), b \in Bytes : Tamper(id, o, b)

TamperSpec == Init /\ [][TamperNext]_vars

(* ------------------------ descriptors on their own --------------------- *)

DescriptorInit == Init /\ ~HAS_LZ4 /\ ~compression_enabled

\* The arguments given to TensorDescriptor: shapes of at most MaxDims
\* dimensions, some of them zero or negative; listed and unlisted dtypes;
\* alignments that are and are not powers of two.
Dims == (0 - 1)..MaxDim
DescriptorShapes ==
    UNION {[1..n -> Dims] : n \in 0..MaxDims}
Dtypes == {"torch.uint8", "torch.float16", "torch.float32", "torch.float64",
           "torch.complex128", "torch.uint16"}
Alignments == 0..(2 * Alignment)

\* TensorDescriptor(tensor_id, shape, dtype, device, alignment=alignment)
Construct(shape, dtype, alignment) ==
    LET out == NewDescriptor(shape, dtype, alignment)
    IN  /\ descCall' = [op |-> "new", shape |-> shape, dtype |-> dtype,
                        alignment |-> alignment, result |-> out.result,
                        raw_byte_size |-> out.raw_byte_size,
                        aligned_byte_size |-> out.aligned_byte_size]
        /\ UNCHANGED <<configVars, allocVars, callerVars, lastCall, envVars,
                       engineVars, userVars, registryVars, managerVars,
                       segmentVars, segCall, regCall, threadVars>>

\* One descriptor is constructed per behaviour.
DescriptorNext ==
    /\ descCall = NoDescCall
    /\ \E shape \in DescriptorShapes, dtype \in Dtypes, alignment \in Alignments :
           Construct(shape, dtype, alignment)

DescriptorSpec == DescriptorInit /\ [][DescriptorNext]_vars

(* ------------- references over any codec, and their lookup ------------ *)

\* A pool without compression whose references are given a codec that
\* implements ICodec: its validate_integrity_fast may answer either way.
LifecycleInit == Init /\ ~HAS_LZ4 /\ ~compression_enabled

\* The tensors shared and set: two shapes that fit a pool object and one that
\* does not.
LifecycleTensors == {<<0>>, <<0, 1>>, Oversized}

\* SharedTensor.get() when validate_integrity_fast answers valid
GetWith(id, valid) ==
    /\ HoldsHandle(id, "share")
    /\ Called
    /\ LET out == MaterializeWith(refs[id], mem, valid)
       IN  /\ refs' = [refs EXCEPT ![id] = out.ref]
           /\ refCall' = Call("get", id, "share", out.result, out.tensor,
                              out.path)
    /\ UNCHANGED <<configVars, allocVars, callerVars, lastCall, envVars,
                   mem, compression_cache, tensors, handles, hist,
                   registryVars, ownerVars>>

\* The arguments of the lookups.
ShapeCriteria == {None, Some(<<>>), Some(<<1>>), Some(<<2>>)}
DtypeCriteria == {None, Some("torch.uint8"), Some("torch.float32")}
DeviceCriteria == {None, Some("cpu")}

\* registry.get_tensor_by_criteria(shape, dtype, device)
Lookup(shape, dtype, device) ==
    /\ Called
    /\ regCall' = [op |-> "criteria", shape |-> shape, dtype |-> dtype,
                   device |-> device, at |-> calls + 1,
                   result |-> GetTensorByCriteria(Registry, refs, shape,
                                                  dtype, device)]
    /\ UNCHANGED <<configVars, allocVars, callerVars, lastCall, envVars,
                   engineVars, handles, hist, refCall, registryVars,
                   managerVars, segmentVars, segCall, descCall, threadVars>>

LifecycleNext ==
    \/ \E tensor \in LifecycleTensors : ShareTensor(tensor)
    \/ \E id \in Ids, valid \in BOOLEAN : GetWith(id, valid)
    \/ \E id \in Ids, tensor \in LifecycleTensors : Set(id, tensor)
    \/ \E id \in Ids : Detach(id)
    \/ \E id \in Ids : Evict(id)
    \/ \E shape \in ShapeCriteria, dtype \in DtypeCriteria,
          device \in DeviceCriteria : Lookup(shape, dtype, device)

LifecycleSpec == LifecycleInit /\ [][LifecycleNext]_vars

(* -------------------- TensorRegistry under callers --------------------- *)

\* The registry of a pool without compression; the callers below register,
\* look up, remove and expire references themselves.
RegistryInit == Init /\ ~HAS_LZ4 /\ ~compression_enabled

RegCall(op, id, max_age, ok, removed) ==
    [op |-> op, id |-> id, max_age |-> max_age, ok |-> ok,
     removed |-> removed, count |-> Cardinality(removed), at |-> calls + 1,
     dup |-> op = "register" /\ id \in tensors]

\* What the registry calls leave alone.
RegistryFrame ==
    UNCHANGED <<configVars, allocVars, callerVars, lastCall, envVars, mem,
                compression_cache, handles, refCall, now, managerVars,
                segmentVars, segCall, descCall, threadVars>>

\* register_optimized(reference) with a new ACTIVE reference for the id, as
\* share_tensor builds it; the id may be registered already.
RegistryRegister(id) ==
    LET reference == [NewReference(CreateDescriptor(<<0>>), 0)
                          EXCEPT !.state = "ACTIVE"]
        rs == [refs EXCEPT ![id] = reference]
    IN  /\ Called
        /\ refs' = rs
        /\ hist' = [hist EXCEPT ![id] = [NoHist EXCEPT !.shared = <<0>>]]
        /\ SetRegistry(RegisterOptimized(Registry, rs, id))
        /\ regCall' = RegCall("register", id, 0, TRUE,
                          tensors \ RegisterOptimized(Registry, rs, id).tensors)
        /\ RegistryFrame

\* get_optimized(tensor_id)
RegistryGet(id) ==
    /\ Called
    /\ SetRegistry(GetOptimized(Registry, id))
    /\ regCall' = RegCall("get", id, 0, id \in tensors, {})
    /\ UNCHANGED <<refs, hist>>
    /\ RegistryFrame

\* remove_fast(tensor_id)
RegistryRemove(id) ==
    LET out == RemoveFast(Registry, id)
    IN  /\ Called
        /\ SetRegistry(out.g)
        /\ regCall' = RegCall("remove", id, 0, out.removed,
                              tensors \ out.g.tensors)
        /\ UNCHANGED <<refs, hist>>
        /\ RegistryFrame

\* cleanup_expired(max_age_seconds)
RegistryCleanup(max_age_seconds) ==
    LET out == CleanupExpired(Registry, refs, max_age_seconds)
    IN  /\ Called
        /\ SetRegistry(out.g)
        /\ regCall' = RegCall("cleanup", 0, max_age_seconds, TRUE,
                              out.expired_ids)
        /\ UNCHANGED <<refs, hist>>
        /\ RegistryFrame

\* One pass of _background_cleanup: _trigger_cleanup().
BackgroundCleanup ==
    /\ Called
    /\ SetRegistry(TriggerCleanup(Registry, refs))
    /\ regCall' = RegCall("background", 0, BackgroundMaxAge, TRUE,
                          tensors \ TriggerCleanup(Registry, refs).tensors)
    /\ UNCHANGED <<refs, hist>>
    /\ RegistryFrame

\* Time passes.
Tick ==
    /\ now < MaxTime
    /\ now' = now + 1
    /\ UNCHANGED <<configVars, allocVars, callerVars, lastCall, envVars,
                   engineVars, userVars, lru_cache, cleanup_queue, ownerVars>>

MaxAges == 1..MaxTime

RegistryNext ==
    \/ \E id \in Ids : RegistryRegister(id)
    \/ \E id \in Ids : RegistryGet(id)
    \/ \E id \in Ids : RegistryRemove(id)
    \/ \E max_age_seconds \in MaxAges : RegistryCleanup(max_age_seconds)
    \/ BackgroundCleanup
    \/ \E id \in Ids : Get(id, "share")
    \/ \E id \in Ids : Detach(id)
    \/ \E id \in Ids : Evict(id)
    \/ Tick

RegistrySpec == RegistryInit /\ [][RegistryNext]_vars

(* ------------- the registry's methods, statement by statement ---------- *)

\* Two threads run the registry's methods at once; either may be a caller
\* or the registry's cleanup thread.  A step is one statement (or a run of
\* statements no other thread's statements can separate); a thread waits
\* where the lock it needs is held by the other thread.
ConcurrentInit == Init /\ ~HAS_LZ4 /\ ~compression_enabled

ThreadFrame ==
    UNCHANGED <<configVars, allocVars, callerVars, lastCall, envVars, mem,
                compression_cache, handles, refCall, now, managerVars,
                segmentVars, segCall, regCall, descCall, loops,
                shutdown_event, gpuVars>>

\* The thread is outside every method and makes a call.
Enter(t) == threads[t] = Idle /\ Called

Goto(t, locals) == threads' = [threads EXCEPT ![t] = locals]

\* register_optimized, lines 48-52: the time is read, the write lock taken
\* and the reference stored in _tensors.
RegisterStore(t, id) ==
    LET reference == [NewReference(CreateDescriptor(<<0>>), 0)
                          EXCEPT !.state = "ACTIVE"]
    IN  /\ Enter(t)
        /\ write_lock = Free
        /\ write_lock' = t
        /\ tensors' = tensors \cup {id}
        /\ refs' = [refs EXCEPT ![id] = reference]
        /\ hist' = [hist EXCEPT ![id] = [NoHist EXCEPT !.shared = <<0>>]]
        /\ Goto(t, [Idle EXCEPT !.pc = "register_lru", !.id = id,
                                !.time = now])
        /\ UNCHANGED <<lru_cache, cleanup_queue, read_lock>>
        /\ ThreadFrame

\* register_optimized, line 53
RegisterLru(t) ==
    /\ threads[t].pc = "register_lru"
    /\ lru_cache' = [lru_cache EXCEPT ![threads[t].id] = threads[t].time]
    /\ Goto(t, [threads[t] EXCEPT !.pc = "register_queue"])
    /\ UNCHANGED <<tensors, refs, hist, calls, cleanup_queue, read_lock,
                   write_lock>>
    /\ ThreadFrame

\* register_optimized, lines 55-59: the queue entry, the inline cleanup of a
\* queue longer than the threshold, and the release of the write lock.
RegisterQueue(t) ==
    LET g1 == [Registry EXCEPT
                 !.cleanup_queue = Append(@, <<threads[t].time,
                                               threads[t].id>>)]
    IN  /\ threads[t].pc = "register_queue"
        /\ SetRegistry(IF Len(g1.cleanup_queue) > CleanupThreshold
                       THEN TriggerCleanup(g1, refs) ELSE g1)
        /\ write_lock' = Free
        /\ Goto(t, Idle)
        /\ UNCHANGED <<refs, hist, calls, read_lock>>
        /\ ThreadFrame

\* get_optimized, lines 63-64: the read lock is taken and _tensors read.
GetRead(t, id) ==
    /\ Enter(t)
    /\ read_lock = Free
    /\ read_lock' = t
    /\ Goto(t, [Idle EXCEPT !.pc = "get_lru", !.id = id,
                            !.found = id \in tensors])
    /\ UNCHANGED <<tensors, refs, hist, lru_cache, cleanup_queue, write_lock>>
    /\ ThreadFrame

\* get_optimized, lines 65-70: a hit writes the id's time in _lru_cache.
GetLru(t) ==
    /\ threads[t].pc = "get_lru"
    /\ lru_cache' = IF threads[t].found
                    THEN [lru_cache EXCEPT ![threads[t].id] = now]
                    ELSE lru_cache
    /\ read_lock' = Free
    /\ Goto(t, Idle)
    /\ UNCHANGED <<tensors, refs, hist, calls, cleanup_queue, write_lock>>
    /\ ThreadFrame

\* remove_fast, lines 74-75, for one of the ids the thread has to remove:
\* the write lock is taken (it is reentrant) and the id popped from _tensors.
PopTensors(t, todo, holds) ==
    \E id \in todo :
        /\ write_lock \in {Free, t}
        /\ write_lock' = t
        /\ tensors' = tensors \ {id}
        /\ Goto(t, [Idle EXCEPT !.pc = "remove_lru", !.id = id,
                                !.todo = todo, !.holds = holds])
        /\ UNCHANGED <<refs, hist, lru_cache, cleanup_queue, read_lock>>
        /\ ThreadFrame

\* remove_fast(tensor_id) called from outside.
RemoveCall(t, id) == Enter(t) /\ PopTensors(t, {id}, FALSE)

\* remove_fast called by a cleanup for the next expired id.
RemoveNext(t) ==
    /\ threads[t].pc = "remove"
    /\ PopTensors(t, threads[t].todo, threads[t].holds)
    /\ UNCHANGED calls

\* remove_fast, lines 76-79: the id is popped from _lru_cache and the lock
\* released; a cleanup goes on with the ids left.
RemoveLru(t) ==
    LET todo == threads[t].todo \ {threads[t].id}
    IN  /\ threads[t].pc = "remove_lru"
        /\ lru_cache' = [lru_cache EXCEPT ![threads[t].id] = NoTime]
        /\ write_lock' = IF threads[t].holds /\ todo # {} THEN t ELSE Free
        /\ Goto(t, IF todo = {} THEN Idle
                   ELSE [threads[t] EXCEPT !.pc = "remove", !.id = 0,
                                           !.todo = todo])
        /\ UNCHANGED <<tensors, refs, hist, calls, cleanup_queue, read_lock>>
        /\ ThreadFrame

\* cleanup_expired, lines 134-144: under the write lock the expired ids are
\* collected; lines 146-150 then remove them one by one.
CleanupScan(t, max_age_seconds) ==
    LET expired_ids == CleanupExpired(Registry, refs,
                                      max_age_seconds).expired_ids
    IN  /\ Enter(t)
        /\ write_lock = Free
        /\ write_lock' = IF expired_ids = {} THEN Free ELSE t
        /\ Goto(t, IF expired_ids = {} THEN Idle
                   ELSE [Idle EXCEPT !.pc = "remove", !.todo = expired_ids,
                                     !.holds = TRUE])
        /\ UNCHANGED <<tensors, refs, hist, lru_cache, cleanup_queue,
                       read_lock>>
        /\ ThreadFrame

\* _trigger_cleanup as _background_cleanup calls it, lines 154-166: no lock
\* is taken, the old queue entries are popped and the expired ids collected;
\* lines 168-171 then remove them one by one.
BackgroundScan(t) ==
    LET g == TriggerCleanup(Registry, refs)
        expired_ids == tensors \ g.tensors
    IN  /\ Enter(t)
        /\ cleanup_queue' = g.cleanup_queue
        /\ Goto(t, IF expired_ids = {} THEN Idle
                   ELSE [Idle EXCEPT !.pc = "remove", !.todo = expired_ids])
        /\ UNCHANGED <<tensors, refs, hist, lru_cache, read_lock, write_lock>>
        /\ ThreadFrame

ConcurrentNext ==
    \/ \E t \in Threads, id \in Ids : RegisterStore(t, id)
    \/ \E t \in Threads : RegisterLru(t)
    \/ \E t \in Threads : RegisterQueue(t)
    \/ \E t \in Threads, id \in Ids : GetRead(t, id)
    \/ \E t \in Threads : GetLru(t)
    \/ \E t \in Threads, id \in Ids : RemoveCall(t, id)
    \/ \E t \in Threads : RemoveNext(t)
    \/ \E t \in Threads : RemoveLru(t)
    \/ \E t \in Threads, max_age_seconds \in MaxAges :
           CleanupScan(t, max_age_seconds)
    \/ \E t \in Threads : BackgroundScan(t)
    \/ Tick

ConcurrentSpec == ConcurrentInit /\ [][ConcurrentNext]_vars

(* ------------------------- the background loops ------------------------ *)

LoopInit == Init /\ ~HAS_LZ4 /\ ~compression_enabled

\* What a step of a loop leaves alone besides the registry's maps.
LoopFrame ==
    UNCHANGED <<configVars, allocVars, callerVars, lastCall, envVars, mem,
                compression_cache, refs, userVars, now, segCall, regCall,
                descCall, threads, read_lock, write_lock, gpuVars>>

\* TensorManager.close(), lines 177-179: _closed is set; the join that
\* follows waits for at most a second.
CloseFlag ==
    /\ ~closed
    /\ closed' = TRUE
    /\ UNCHANGED <<collected, cleanup_runs, segmentVars, registryVars, tensors,
                   loops, shutdown_event>>
    /\ LoopFrame

\* TensorManager.close(), line 184: cleanup_resources(), whose
\* registry.shutdown() sets the registry's event.
CloseResources ==
    /\ closed
    /\ ~shutdown_event
    /\ shutdown_event' = TRUE
    /\ cleanup_runs' = cleanup_runs + 1
    /\ SetRegistry(Shutdown(Registry))
    /\ segment_open' = FALSE
    /\ segment_releases' = segment_releases + (IF segment_open THEN 1 ELSE 0)
    /\ UNCHANGED <<closed, collected, segment_kind, now, loops>>
    /\ LoopFrame

\* The step leaves the registry, the manager's flags and the segment alone.
LoopOnly ==
    /\ UNCHANGED <<managerVars, segmentVars, registryVars, tensors,
                   shutdown_event>>
    /\ LoopFrame

\* _background_cleanup whose wait() never reports the event.
RegistryWakeIgnoringEvent ==
    /\ loops["registry"].pc = "waiting"
    /\ loops["registry"].passes < MaxPasses
    /\ loops' = [loops EXCEPT !["registry"].pc = "pass"]
    /\ LoopOnly

\* _background_cleanup, line 175: wait(timeout=300) returns, True when the
\* event is set (the loop ends) and False after the timeout (a pass begins).
RegistryWake ==
    /\ loops["registry"].pc = "waiting"
    /\ shutdown_event \/ loops["registry"].passes < MaxPasses
    /\ loops' = [loops EXCEPT !["registry"].pc =
                     IF shutdown_event THEN "done" ELSE "pass"]
    /\ LoopOnly

\* _background_cleanup, lines 176-180: one pass of _trigger_cleanup(); an
\* exception it raises is swallowed and the loop waits again.
RegistryPass(raises) ==
    /\ loops["registry"].pc = "pass"
    /\ loops' = [loops EXCEPT !["registry"].pc = "waiting",
                              !["registry"].passes = @ + 1,
                              !["registry"].errors =
                                  @ + (IF raises THEN 1 ELSE 0)]
    /\ IF raises THEN UNCHANGED <<tensors, lru_cache, cleanup_queue>>
       ELSE SetRegistry(TriggerCleanup(Registry, refs))
    /\ UNCHANGED <<managerVars, segmentVars, now, shutdown_event>>
    /\ LoopFrame

\* _background_optimization_loop, line 155: the test of the while.
ManagerTest ==
    /\ loops["manager"].pc = "test"
    /\ loops' = [loops EXCEPT !["manager"].pc =
                     IF closed THEN "done" ELSE "sleeping"]
    /\ LoopOnly

\* _background_optimization_loop, lines 157-158: the sleep ends and _closed
\* is tested again; a pass begins when it is not set.
ManagerWake ==
    /\ loops["manager"].pc = "sleeping"
    /\ closed \/ loops["manager"].passes < MaxPasses
    /\ loops' = [loops EXCEPT !["manager"].pc =
                     IF closed THEN "test" ELSE "pass"]
    /\ LoopOnly

\* _background_optimization_loop, lines 159-164: optimize_memory_layout()
\* and cleanup_expired_tensors(3600.0); an exception is swallowed.
ManagerPass(raises) ==
    /\ loops["manager"].pc = "pass"
    /\ loops' = [loops EXCEPT !["manager"].pc = "test",
                              !["manager"].passes = @ + 1,
                              !["manager"].errors =
                                  @ + (IF raises THEN 1 ELSE 0)]
    /\ IF raises THEN UNCHANGED <<tensors, lru_cache, cleanup_queue>>
       ELSE SetRegistry(CleanupExpired(Registry, refs, 1).g)
    /\ UNCHANGED <<managerVars, segmentVars, now, shutdown_event>>
    /\ LoopFrame

LoopNext ==
    \/ CloseFlag
    \/ CloseResources
    \/ RegistryWake
    \/ \E raises \in BOOLEAN : RegistryPass(raises)
    \/ ManagerTest
    \/ ManagerWake
    \/ \E raises \in BOOLEAN : ManagerPass(raises)

LoopSpec == LoopInit /\ [][LoopNext]_vars

\* The loops' threads are scheduled and their sleeps and waits time out.
LoopFairSpec ==
    /\ LoopSpec
    /\ WF_vars(RegistryWake)
    /\ WF_vars(\E raises \in BOOLEAN : RegistryPass(raises))
    /\ WF_vars(ManagerTest)
    /\ WF_vars(ManagerWake)
    /\ WF_vars(\E raises \in BOOLEAN : ManagerPass(raises))

(* --------------------- a pool with a slot to spare --------------------- *)

\* Tensors that fill a pool object: one that compresses (a run) and one
\* that does not; both have the same shape, dtype and device.
FullRun == [i \in 1..Alignment |-> 0]
FullMixed == [i \in 1..Alignment |-> IF i = Alignment THEN 1 ELSE 0]
SlotTensors == {<<0>>, FullRun, FullMixed}

\* TensorPool.__init__ over a segment that holds as many objects as the
\* caller shares tensors, or one more.
SlotMemories == {PoolMemory, PoolMemory + PoolObjectSize}
SlotInit ==
    /\ HAS_LZ4 \in BOOLEAN
    /\ compression_enabled \in BOOLEAN
    /\ object_size = PoolObjectSize
    /\ slab_size = PoolObjectSize
    /\ segment_size \in SlotMemories
    /\ free_objects = NewAllocator.free_objects
    /\ partial_slabs = NewAllocator.partial_slabs
    /\ full_slabs = {}
    /\ empty_slabs = {}
    /\ allocation_count = 0
    /\ deallocation_count = 0
    /\ live = [o \in Offsets |-> 0]
    /\ alloc_ok_calls = 0
    /\ alloc_after_dealloc = FALSE
    /\ lastCall = [op |-> "init", size |-> 0, result |-> "ok", offset |-> -1]
    /\ mem = [o \in 0..(segment_size - 1) |-> 0]
    /\ segment_kind = "package"
    /\ BookkeepingInit

\* The caller shares a tensor while it has shared fewer than PoolSlots.
ShareInSlot(tensor) == NextId \in Ids /\ ShareTensor(tensor)

SlotNext ==
    \/ \E tensor \in SlotTensors : ShareInSlot(tensor)
    \/ \E id \in Ids, via \in Vias : Get(id, via)
    \/ \E id \in Ids, tensor \in SlotTensors : Set(id, tensor)

SlotSpec == SlotInit /\ [][SlotNext]_vars

(* ---------------- cuda_kernel_manager.memory allocators ---------------- *)

GpuInit == Init /\ ~HAS_LZ4 /\ ~compression_enabled

\* What a call on an allocator of cuda_kernel_manager leaves alone.
GpuFrame ==
    UNCHANGED <<configVars, allocVars, callerVars, lastCall, envVars,
                engineVars, handles, hist, refCall, registryVars,
                managerVars, segmentVars, segCall, regCall, descCall,
                threads, read_lock, write_lock, loops, shutdown_event>>

GpuCall(op, size, ptr, result) ==
    [op |-> op, size |-> size, ptr |-> ptr, result |-> result]

\* dict[key] = value and dict.pop(key)
Put(d, key, value) ==
    [k \in DOMAIN d \cup {key} |-> IF k = key THEN value ELSE d[k]]
Pop(d, key) == [k \in DOMAIN d \ {key} |-> d[k]]

\* The alignments a caller passes.
GpuAlignments == {1, 2}

\* MemoryAllocator.__init__(total_size), for a BestFitAllocator
NewBestFit(total) ==
    /\ allocator = "none"
    /\ allocator' = "BestFitAllocator"
    /\ total_size' = total
    /\ allocated_size' = 0
    /\ free_blocks' = << <<0, total>> >>
    /\ allocated_blocks' = <<>>
    /\ gpuCall' = GpuCall("new", total, -1, "ok")
    /\ UNCHANGED <<min_size, free_lists, calls>>
    /\ GpuFrame

\* ((size + alignment - 1) // alignment) * alignment
AlignedSize(size, alignment) ==
    ((size + alignment - 1) \div alignment) * alignment

\* list.sort() on tuples (offset, size): by offset, then by size.
BlockBefore(b, c) == b[1] < c[1] \/ (b[1] = c[1] /\ b[2] < c[2])
RECURSIVE SortBlocks(_)
SortBlocks(blocks) ==
    IF blocks = <<>> THEN <<>>
    ELSE LET rest == SortBlocks(Tail(blocks))
             b == Head(blocks)
             k == Cardinality({ i \in 1..Len(rest) : BlockBefore(rest[i], b) })
         IN  SubSeq(rest, 1, k) \o <<b>> \o SubSeq(rest, k + 1, Len(rest))

\* The loop of allocate, lines 16-20: the index of the first block among
\* the smallest that hold aligned_size, or 0 when best_block stays None.
BestIndex(blocks, aligned_size) ==
    LET fits == { i \in 1..Len(blocks) : blocks[i][2] >= aligned_size }
    IN  IF fits = {} THEN 0
        ELSE CHOOSE i \in fits :
                 \A j \in fits :
                     \/ blocks[i][2] < blocks[j][2]
                     \/ blocks[i][2] = blocks[j][2] /\ i <= j

\* _coalesce_free_blocks, lines 58-65: the loop over the sorted list with
\* the block being grown, the blocks still to visit and the list built.
RECURSIVE CoalesceFrom(_, _, _)
CoalesceFrom(current, rest, coalesced) ==
    IF rest = <<>> THEN Append(coalesced, current)
    ELSE IF current[1] + current[2] = Head(rest)[1]
    THEN CoalesceFrom(<<current[1], current[2] + Head(rest)[2]>>,
                      Tail(rest), coalesced)
    ELSE CoalesceFrom(Head(rest), Tail(rest), Append(coalesced, current))

CoalesceFreeBlocks(blocks) ==
    IF Len(blocks) <= 1 THEN blocks
    ELSE CoalesceFrom(blocks[1], Tail(blocks), <<>>)

\* BestFitAllocator.allocate(size, alignment)
BestFitAllocate(size, alignment) ==
    /\ allocator = "BestFitAllocator"
    /\ Called
    /\ LET aligned_size == AlignedSize(size, alignment)
           best_index == BestIndex(free_blocks, aligned_size)
       IN  IF best_index = 0
           THEN /\ gpuCall' = GpuCall("allocate", size, -1, "None")
                /\ UNCHANGED <<free_blocks, allocated_blocks, allocated_size>>
           ELSE LET offset == free_blocks[best_index][1]
                    block_size == free_blocks[best_index][2]
                    popped == SubSeq(free_blocks, 1, best_index - 1)
                              \o SubSeq(free_blocks, best_index + 1,
                                        Len(free_blocks))
                IN  /\ free_blocks' =
                          IF block_size > aligned_size
                          THEN SortBlocks(Append(popped,
                                   <<offset + aligned_size,
                                     block_size - aligned_size>>))
                          ELSE popped
                    /\ allocated_blocks' =
                          Put(allocated_blocks, offset, aligned_size)
                    /\ allocated_size' = allocated_size + aligned_size
                    /\ gpuCall' = GpuCall("allocate", size, offset, "ok")
    /\ UNCHANGED <<allocator, total_size, min_size, free_lists>>
    /\ GpuFrame

\* BestFitAllocator.deallocate(ptr)
BestFitDeallocate(ptr) ==
    /\ allocator = "BestFitAllocator"
    /\ Called
    /\ IF ptr \notin DOMAIN allocated_blocks
       THEN /\ gpuCall' = GpuCall("deallocate", 0, ptr, "False")
            /\ UNCHANGED <<free_blocks, allocated_blocks, allocated_size>>
       ELSE LET size == allocated_blocks[ptr]
            IN  /\ allocated_blocks' = Pop(allocated_blocks, ptr)
                /\ allocated_size' = allocated_size - size
                /\ free_blocks' = CoalesceFreeBlocks(
                       SortBlocks(Append(free_blocks, <<ptr, size>>)))
                /\ gpuCall' = GpuCall("deallocate", size, ptr, "True")
    /\ UNCHANGED <<allocator, total_size, min_size, free_lists>>
    /\ GpuFrame

BestFitNext ==
    \/ \E total \in 1..MaxTotal : NewBestFit(total)
    \/ \E size \in 0..(MaxTotal + 1), alignment \in GpuAlignments :
           BestFitAllocate(size, alignment)
    \/ \E ptr \in 0..MaxTotal : BestFitDeallocate(ptr)

BestFitSpec == GpuInit /\ [][BestFitNext]_vars

(* ---------------------------- BuddyAllocator --------------------------- *)

\* int.bit_length() of a non-negative integer and of -1.
RECURSIVE BitLength(_)
BitLength(n) ==
    IF n = 0 THEN 0
    ELSE IF n < 0 THEN BitLength(0 - n)
    ELSE 1 + BitLength(n \div 2)

\* x ^ y on non-negative integers
RECURSIVE BitXor(_, _)
BitXor(x, y) ==
    IF x = 0 THEN y
    ELSE IF y = 0 THEN x
    ELSE 2 * BitXor(x \div 2, y \div 2) + (((x % 2) + (y % 2)) % 2)

\* The keys of _free_lists, lines 17-20: min_size doubled while it does not
\* exceed total_size.
RECURSIVE ListSizes(_, _)
ListSizes(size, total) ==
    IF size > total THEN {} ELSE {size} \cup ListSizes(size * 2, total)

\* BuddyAllocator.__init__(total_size, min_size) with total_size equal to
\* min_size times a power of two (for another total_size line 22 raises
\* KeyError).
NewBuddy(total, smallest) ==
    /\ allocator = "none"
    /\ allocator' = "BuddyAllocator"
    /\ total_size' = total
    /\ allocated_size' = 0
    /\ free_blocks' = << <<0, total>> >>
    /\ allocated_blocks' = <<>>
    /\ min_size' = smallest
    /\ free_lists' = [size \in ListSizes(smallest, total) |->
                         IF size = total THEN {0} ELSE {}]
    /\ gpuCall' = GpuCall("new", total, -1, "ok")
    /\ UNCHANGED calls
    /\ GpuFrame

\* max(self._min_size, 1 << (size - 1).bit_length())
BlockSize(size) == Max(min_size, 2 ^ BitLength(size - 1))

\* The while of allocate, lines 32-35: the block at offset is halved until
\* it has block_size, and each upper half goes to the free list of its
\* size.
RECURSIVE SplitBlock(_, _, _, _)
SplitBlock(lists, offset, current_size, block_size) ==
    IF current_size > block_size
    THEN LET half == current_size \div 2
         IN  SplitBlock([lists EXCEPT ![half] = @ \cup {offset + half}],
                        offset, half, block_size)
    ELSE lists

\* BuddyAllocator.allocate(size): the smallest size class that holds
\* block_size and has a free block; set.pop() takes any of its blocks.
BuddyAllocate(size) ==
    /\ allocator = "BuddyAllocator"
    /\ Called
    /\ LET block_size == BlockSize(size)
           classes == { c \in DOMAIN free_lists :
                          c >= block_size /\ free_lists[c] # {} }
       IN  IF classes = {}
           THEN /\ gpuCall' = GpuCall("allocate", size, -1, "None")
                /\ UNCHANGED <<free_lists, allocated_blocks, allocated_size>>
           ELSE LET current_size ==
                        CHOOSE c \in classes : \A d \in classes : c <= d
                IN  \E offset \in free_lists[current_size] :
                      /\ free_lists' = SplitBlock(
                             [free_lists EXCEPT ![current_size] =
                                  @ \ {offset}],
                             offset, current_size, block_size)
                      /\ allocated_blocks' =
                             Put(allocated_blocks, offset, block_size)
                      /\ allocated_size' = allocated_size + block_size
                      /\ gpuCall' = GpuCall("allocate", size, offset, "ok")
    /\ UNCHANGED <<allocator, total_size, min_size, free_blocks>>
    /\ GpuFrame

\* The while of deallocate, lines 51-58, and line 60: the block is merged
\* with its buddy while the buddy is free, then put on the free list of
\* its size. A size that is no key of _free_lists raises KeyError.
RECURSIVE MergeBlock(_, _, _)
MergeBlock(lists, ptr, block_size) ==
    IF block_size \notin DOMAIN lists
    THEN [result |-> "KeyError", lists |-> lists]
    ELSE IF block_size < total_size
            /\ BitXor(ptr, block_size) \in lists[block_size]
    THEN MergeBlock([lists EXCEPT ![block_size] =
                         @ \ {BitXor(ptr, block_size)}],
                    Min(ptr, BitXor(ptr, block_size)), block_size * 2)
    ELSE [result |-> "True",
          lists |-> [lists EXCEPT ![block_size] = @ \cup {ptr}]]

\* BuddyAllocator.deallocate(ptr)
BuddyDeallocate(ptr) ==
    /\ allocator = "BuddyAllocator"
    /\ Called
    /\ IF ptr \notin DOMAIN allocated_blocks
       THEN /\ gpuCall' = GpuCall("deallocate", 0, ptr, "False")
            /\ UNCHANGED <<free_lists, allocated_blocks, allocated_size>>
       ELSE LET block_size == allocated_blocks[ptr]
                out == MergeBlock(free_lists, ptr, block_size)
            IN  /\ allocated_blocks' = Pop(allocated_blocks, ptr)
                /\ allocated_size' = allocated_size - block_size
                /\ free_lists' = out.lists
                /\ gpuCall' = GpuCall("deallocate", block_size, ptr,
                                      out.result)
    /\ UNCHANGED <<allocator, total_size, min_size, free_blocks>>
    /\ GpuFrame

BuddyNext ==
    \/ \E smallest \in 1..MaxMinSize, level \in 0..MaxLevels :
           NewBuddy(smallest * 2 ^ level, smallest)
    \/ \E size \in 0..(MaxMinSize * 2 ^ MaxLevels + 1) : BuddyAllocate(size)
    \/ \E ptr \in 0..(MaxMinSize * 2 ^ MaxLevels) : BuddyDeallocate(ptr)

BuddySpec == GpuInit /\ [][BuddyNext]_vars

(* ------------------------ SlabAllocator claims ------------------------- *)

AllSlabs == partial_slabs \cup full_slabs \cup empty_slabs
InSlab(offset, slab_offset) ==
    slab_offset <= offset /\ offset < slab_offset + slab_size
LiveOffsets == { o \in Offsets : live[o] > 0 }
RangesDisjoint(o1, o2) == o1 + object_size <= o2 \/ o2 + object_size <= o1

\* C1: allocate_aligned never returns an offset that is still live, and the
\* ranges [offset, offset + object_size) of the live allocations are
\* pairwise disjoint. Stated for the allocators whose objects fit in a slab
\* (object_size <= slab_size); with a larger object_size consecutive slabs'
\* objects overlap from the second allocation on.
C1_LiveAllocationsDisjoint ==
    object_size <= slab_size =>
        /\ \A o \in Offsets : live[o] <= 1
        /\ \A o1, o2 \in LiveOffsets : o1 # o2 => RangesDisjoint(o1, o2)

\* C7: allocate_aligned(size) with size > object_size fails with
\* AllocationFailure and leaves free list, slab sets and counters unchanged.
C7_OversizeFailsUnchanged ==
    [][ (lastCall'.op = "allocate" /\ lastCall'.size > object_size)
          => (lastCall'.result = "AllocationFailure" /\ UNCHANGED allocVars)
      ]_vars

C7_Witness ==
    /\ lastCall.op = "allocate"
    /\ lastCall.size > object_size
    /\ lastCall.result = "AllocationFailure"
    /\ allocation_count > deallocation_count

\* C8: the reported utilization is (allocation_count - deallocation_count)
\* over (number of slabs * objects_per_slab), and allocation_count is the
\* number of allocate calls that succeeded.
C8_UtilizationExact ==
    LET stats == GetUtilizationStats(Allocator)
    IN  /\ stats.utilization =
               <<alloc_ok_calls - deallocation_count,
                 Cardinality(AllSlabs) * objects_per_slab>>
        /\ stats.allocation_count = alloc_ok_calls
        /\ allocation_count = alloc_ok_calls

C8_Witness ==
    /\ alloc_ok_calls >= 3
    /\ deallocation_count >= 1
    /\ alloc_ok_calls > deallocation_count
    /\ empty_slabs # {}
    /\ Cardinality(AllSlabs) = 2

\* C9: from a new allocator the first N = objects_per_slab allocations come
\* from the first slab, the (N+1)-th creates a second slab and returns an
\* offset inside it, and once every object of the first slab has been
\* deallocated the first slab is in the empty set only.
C9_GrowthAndEmptying ==
    LET N == objects_per_slab
        firstSlabFree ==
            \A i \in 1..N : live[SlabObjects(0)[i]] = 0
    IN  /\ (lastCall.op = "allocate" /\ lastCall.result = "ok"
              /\ deallocation_count = 0 /\ allocation_count <= N)
             => (InSlab(lastCall.offset, 0) /\ AllSlabs = {0})
        /\ (lastCall.op = "allocate" /\ lastCall.result = "ok"
              /\ deallocation_count = 0 /\ allocation_count = N + 1)
             => (AllSlabs = {0, slab_size}
                   /\ InSlab(lastCall.offset, slab_size))
        /\ (deallocation_count > 0 /\ ~alloc_after_dealloc /\ firstSlabFree)
             => (0 \in empty_slabs /\ 0 \notin partial_slabs
                   /\ 0 \notin full_slabs)

C9_Witness ==
    /\ objects_per_slab >= 2
    /\ ~alloc_after_dealloc
    /\ allocation_count = objects_per_slab + 1
    /\ deallocation_count = objects_per_slab
    /\ live[slab_size] = 1
    /\ 0 \in empty_slabs

\* C10: with no free object, no empty slab and no room for another slab,
\* allocate_aligned fails with AllocationFailure, creates no slab and leaves
\* the free list, the slab sets and the counters unchanged.
C10_CapacityLimitUnchanged ==
    [][ (/\ lastCall'.op = "allocate"
         /\ lastCall'.size <= object_size
         /\ free_objects = <<>>
         /\ empty_slabs = {}
         /\ (Cardinality(AllSlabs) + 1) * slab_size > segment_size)
          => (lastCall'.result = "AllocationFailure" /\ UNCHANGED allocVars)
      ]_vars

C10_Witness ==
    /\ lastCall.op = "allocate"
    /\ lastCall.size <= object_size
    /\ lastCall.result = "AllocationFailure"
    /\ free_objects = <<>>
    /\ empty_slabs = {}
    /\ allocation_count = Cardinality(AllSlabs) * objects_per_slab

(* ----------------------- tensor engine claims -------------------------- *)

Registered == { id \in Ids : refs[id] # NoRef }
LastGetOn(id) == refCall.op = "get" /\ refCall.id = id
HasShape(id, tensor) == Len(tensor) = RawByteSize(refs[id].descriptor)

\* C2: once detach() has completed on a reference, the reference stays
\* DETACHED, every later materialize() fails with the detached error and
\* returns no buffer, and a further detach() raises nothing.
C2_DetachedStaysDetached ==
    \A id \in Registered :
        hist[id].detached # "no" =>
            /\ refs[id].state = "DETACHED"
            /\ LastGetOn(id) =>
                   /\ refCall.result = "TensorError: detached"
                   /\ refCall.tensor = <<>>
            /\ (refCall.op = "detach" /\ refCall.id = id) =>
                   refCall.result = "ok"

C2_Witness ==
    \E id \in Registered :
        /\ hist[id].detached = "with_cache"
        /\ LastGetOn(id)
        /\ refCall.result = "TensorError: detached"
        /\ refs[id].access_count >= 2

\* C3: a materialize() that reads storage whose bytes differ from the
\* encoding of the value whose checksum the descriptor records fails with
\* TensorCorruption and leaves the reference CORRUPTED.
C3_AlteredBytesDetected ==
    \A id \in Registered :
        (/\ LastGetOn(id)
         /\ refCall.path = "storage"
         /\ refs[id].descriptor.checksum = ComputeChecksumSimd(LastValue(id))
         /\ Stored(id) # ExpectedStored(id))
        => /\ refCall.result = "TensorCorruption"
           /\ refs[id].state = "CORRUPTED"

\* C4: after two or more set() calls with different values of the tensor's
\* shape have returned, the stored bytes and the descriptor checksum are
\* those of one of the written values and a following get() returns it.
C4_OneWrittenValueSurvives ==
    \A id \in Registered :
        (/\ hist[id].detached = "no"
         /\ Len(hist[id].sets) >= 2
         /\ hist[id].sets[1] # hist[id].sets[2]
         /\ \A i \in 1..Len(hist[id].sets) : HasShape(id, hist[id].sets[i]))
        => \E i \in 1..Len(hist[id].sets) :
              LET v == hist[id].sets[i]
                  following == MaterializeOptimized(refs[id], mem)
              IN  /\ refs[id].descriptor.checksum = ComputeChecksumSimd(v)
                  /\ ReadVectorized(mem, refs[id].offset,
                         Len(EncodeParallel(v,
                                 refs[id].descriptor.compression_type)))
                       = EncodeParallel(v,
                             refs[id].descriptor.compression_type)
                  /\ following.result = "ok"
                  /\ following.tensor = v

\* C5: a materialize() that begins after persist(v) completed returns v, the
\* most recently persisted value (v of the tensor's shape), from the cached
\* buffer or from storage.
C5_PersistedValueVisible ==
    \A id \in Registered :
        (/\ hist[id].detached = "no"
         /\ hist[id].sets # <<>>
         /\ HasShape(id, LastValue(id))
         /\ LastGetOn(id))
        => /\ refCall.result = "ok"
           /\ refCall.tensor = LastValue(id)

\* C6: get() on the handle share returned, or on a handle get_tensor
\* returned, gives back the buffer that was shared while no set() or
\* detach() happened on the tensor.
C6_ShareGetRoundTrip ==
    \A id \in Registered :
        (/\ ~hist[id].set_called
         /\ hist[id].detached = "no"
         /\ LastGetOn(id))
        => /\ refCall.result = "ok"
           /\ refCall.tensor = hist[id].shared

(* ----------------------- a segment under callers ---------------------- *)

\* A segment of SegmentBytes bytes of one of the classes, newly mapped.
SegmentInit ==
    /\ HAS_LZ4 = FALSE
    /\ compression_enabled = FALSE
    /\ object_size = 1
    /\ slab_size = 1
    /\ segment_size = SegmentBytes
    /\ free_objects = NewAllocator.free_objects
    /\ partial_slabs = NewAllocator.partial_slabs
    /\ full_slabs = {}
    /\ empty_slabs = {}
    /\ allocation_count = 0
    /\ deallocation_count = 0
    /\ live = [o \in Offsets |-> 0]
    /\ alloc_ok_calls = 0
    /\ alloc_after_dealloc = FALSE
    /\ lastCall = [op |-> "init", size |-> 0, result |-> "ok", offset |-> -1]
    /\ mem = [o \in 0..(SegmentBytes - 1) |-> 0]
    /\ segment_kind \in SegmentKinds
    /\ BookkeepingInit

\* Offsets, sizes and data the callers pass: from before the segment to
\* past its end.
SegmentOffsets == (0 - 2)..(SegmentBytes + 1)
SegmentSizes == 0..2
SegmentData == {<<b>> : b \in Bytes} \cup {<<a, b>> : a \in Bytes, b \in Bytes}

\* What the segment calls leave alone.
SegmentFrame ==
    UNCHANGED <<configVars, allocVars, callerVars, lastCall, envVars,
                compression_cache, tensors, refs, userVars, registryVars,
                managerVars, segment_kind, regCall, descCall, threadVars>>

\* read_vectorized(offset, size)
SegmentReadCall(offset, size) ==
    LET out == SegmentRead(segment_kind, segment_open, mem, offset, size)
    IN  /\ segCall' = [op |-> "read", offset |-> offset, size |-> size,
                       result |-> out.result, data |-> out.data]
        /\ UNCHANGED <<mem, segment_open, segment_releases>>
        /\ SegmentFrame

\* write_vectorized(offset, data). OptimizedBuffer's memmove to an address
\* before the buffer is undefined: it writes there, or the process dies.
SegmentWriteCall(offset, data) ==
    LET out == SegmentWrite(segment_kind, segment_open, mem, offset, data)
        outcomes == IF /\ segment_kind = "buffer"
                       /\ out.result = "ok"
                       /\ offset < 0
                    THEN {out.result, "SIGSEGV"}
                    ELSE {out.result}
    IN  /\ \E result \in outcomes :
              segCall' = [op |-> "write", offset |-> offset,
                          size |-> Len(data), result |-> result,
                          data |-> data]
        /\ mem' = out.memory
        /\ UNCHANGED <<segment_open, segment_releases>>
        /\ SegmentFrame

\* close()
SegmentCloseCall ==
    /\ segment_open' = FALSE
    /\ segment_releases' = segment_releases + (IF segment_open THEN 1 ELSE 0)
    /\ segCall' = [NoSegCall EXCEPT !.op = "close"]
    /\ UNCHANGED mem
    /\ SegmentFrame

SegmentNext ==
    \/ \E offset \in SegmentOffsets, size \in SegmentSizes :
          SegmentReadCall(offset, size)
    \/ \E offset \in SegmentOffsets, data \in SegmentData :
          SegmentWriteCall(offset, data)
    \/ SegmentCloseCall

SegmentSpec == SegmentInit /\ [][SegmentNext]_vars

(* -------------------- TensorManager under callers ---------------------- *)

ManagerInit == Init /\ ~HAS_LZ4 /\ ~compression_enabled

ManagerClosed == "TensorError: Manager is closed"

\* A manager call that changes nothing but the record of the call.
ManagerReturns(op, id, via, result) ==
    /\ Called
    /\ refCall' = Call(op, id, via, result, <<>>, "none")
    /\ UNCHANGED <<configVars, allocVars, callerVars, lastCall, envVars,
                   engineVars, handles, hist, registryVars, ownerVars>>

\* The four ways to share through the manager.
ShareVariants == {"share_tensor", "share_tensor_persistent",
                  "share_tensor_async", "share_tensor_persistent_async"}

\* The share calls without the test of _closed.
ShareIgnoringClosed(variant, tensor) ==
    /\ ~collected
    /\ ShareTensor(tensor)

\* share_tensor_persistent(tensor) and share_tensor_persistent_async(tensor);
\* share_tensor(tensor) and share_tensor_async(tensor) enter the same way and
\* call detach_optimized() on the handle when their block is left. Each
\* raises when _closed is set and calls the pool's share_tensor otherwise.
ManagerShareTensor(variant, tensor) ==
    /\ ~collected
    /\ IF closed
       THEN ManagerReturns("share", 0, variant, ManagerClosed)
       ELSE ShareTensor(tensor)

\* get_tensor(tensor_id)
ManagerGetTensor(id) ==
    /\ ~collected
    /\ IF closed
       THEN ManagerReturns("get_tensor", id, "none", "None")
       ELSE GetTensor(id)

\* The operations that read the pool and change nothing in it:
\* get_tensors_by_criteria, get_performance_metrics and optimize_memory_now
\* (defragment_concurrent of the slab allocator is a no-op).
ManagerQueries == {"get_tensors_by_criteria", "get_performance_metrics",
                   "optimize_memory_now"}
EmptyValue(op) == IF op = "get_tensors_by_criteria" THEN "[]" ELSE "{}"

ManagerQuery(op) ==
    /\ ~collected
    /\ ManagerReturns(op, 0, "none", IF closed THEN EmptyValue(op) ELSE "value")

\* cleanup_expired_tensors(max_age_seconds)
ManagerCleanupExpiredTensors(max_age_seconds) ==
    LET out == CleanupExpired(Registry, refs, max_age_seconds)
    IN  /\ ~collected
        /\ IF closed
           THEN ManagerReturns("cleanup_expired_tensors", 0, "none", "0")
           ELSE /\ Called
                /\ SetRegistry(out.g)
                /\ refCall' = Call("cleanup_expired_tensors",
                                   Cardinality(out.expired_ids), "none",
                                   "count", <<>>, "none")
                /\ UNCHANGED <<configVars, allocVars, callerVars, lastCall,
                               envVars, mem, compression_cache, refs, handles,
                               hist, now, ownerVars>>

\* TensorPool.cleanup_resources(): executor shutdown, registry shutdown and
\* close() of the segment, which releases the mapping if there is one.
CleanupResources(runs) ==
    /\ cleanup_runs' = cleanup_runs + runs
    /\ refs' = ShutdownRefs(Registry, refs)
    /\ SetRegistry(Shutdown(Registry))
    /\ segment_open' = FALSE
    /\ segment_releases' = segment_releases + (IF segment_open THEN 1 ELSE 0)

\* close(), also as __exit__ and __aexit__ call it.
ManagerClose ==
    /\ ~collected
    /\ Called
    /\ refCall' = Call("close", 0, "none", "ok", <<>>, "none")
    /\ closed' = TRUE
    /\ IF closed
       THEN UNCHANGED <<refs, tensors, lru_cache, cleanup_queue, cleanup_runs,
                        segment_open, segment_releases>>
       ELSE CleanupResources(1)
    /\ UNCHANGED <<configVars, allocVars, callerVars, lastCall, envVars, mem,
                   compression_cache, handles, hist, now, collected,
                   segment_kind, directVars>>

\* The manager is dropped and collected: TensorManager.__del__ calls close(),
\* then the pool it alone referred to is collected and TensorPool.__del__
\* calls cleanup_resources().
Finalize ==
    /\ ~collected
    /\ collected' = TRUE
    /\ closed' = TRUE
    /\ CleanupResources(IF closed THEN 1 ELSE 2)
    /\ UNCHANGED <<configVars, allocVars, callerVars, lastCall, envVars, mem,
                   compression_cache, handles, hist, refCall, calls, now,
                   segment_kind, directVars>>

\* The tensors shared through the manager: one that fits a pool object and
\* one that does not.
ManagerTensors == {<<0>>, Oversized}

ManagerNext ==
    \/ \E variant \in ShareVariants, tensor \in ManagerTensors :
          ManagerShareTensor(variant, tensor)
    \/ \E id \in Ids : ManagerGetTensor(id)
    \/ \E op \in ManagerQueries : ManagerQuery(op)
    \/ \E max_age_seconds \in MaxAges :
          ManagerCleanupExpiredTensors(max_age_seconds)
    \/ \E id \in Ids : Detach(id)
    \/ ManagerClose
    \/ Finalize
    \/ Tick

ManagerSpec == ManagerInit /\ [][ManagerNext]_vars

(* ------------------------ Claims on the registry ----------------------- *)

\* C11: cleanup_expired(max_age) leaves no registered id whose recorded last
\* access is older than now - max_age and whose reference is not valid, and
\* it returns the number of entries it removed.
C11_StaleInactiveExpired ==
    [][(regCall'.at # regCall.at /\ regCall'.op = "cleanup")
       => /\ \A id \in tensors :
                (/\ lru_cache[id] < now - regCall'.max_age
                 /\ ~IsValid(refs[id]))
                => id \notin tensors'
          /\ regCall'.count = Cardinality(tensors \ tensors')]_vars

\* A cleanup has just removed one detached reference, from _tensors and
\* from _lru_cache, and returned 1.
C11_Witness ==
    /\ regCall.op = "cleanup"
    /\ regCall.at = calls
    /\ regCall.count = 1
    /\ \E id \in regCall.removed :
          /\ refs[id].state = "DETACHED"
          /\ id \notin tensors
          /\ lru_cache[id] = NoTime

\* C12: no cleanup, whether cleanup_expired, the cleanup register runs inline
\* or the background pass, removes an entry whose reference is valid
\* (ACTIVE or CACHED), however old its last access is.
C12_ActiveEntriesKept ==
    [][(/\ regCall'.at # regCall.at
        /\ regCall'.op \in {"cleanup", "background", "register"})
       => \A id \in tensors : IsValid(refs[id]) => id \in tensors']_vars

\* C19: remove_fast(id) of an id that is not registered returns False and
\* changes nothing; of a registered id it returns True, the id is then in
\* neither _tensors nor _lru_cache, and the registry holds one entry fewer.
C19_RemoveUnregisters ==
    [][(regCall'.at # regCall.at /\ regCall'.op = "remove")
       => IF regCall'.id \in tensors
          THEN /\ regCall'.ok
               /\ regCall'.id \notin tensors'
               /\ lru_cache'[regCall'.id] = NoTime
               /\ Cardinality(tensors') = Cardinality(tensors) - 1
               /\ \A id \in tensors \ {regCall'.id} :
                     id \in tensors' /\ lru_cache'[id] = lru_cache[id]
          ELSE /\ ~regCall'.ok
               /\ UNCHANGED <<tensors, lru_cache, cleanup_queue, refs>>]_vars

\* remove_fast has just returned True for one of two registered ids and the
\* other is still registered.
C19_Witness ==
    /\ regCall.op = "remove"
    /\ regCall.at = calls
    /\ regCall.ok
    /\ regCall.id \notin tensors
    /\ lru_cache[regCall.id] = NoTime
    /\ tensors # {}

\* remove_fast has just returned False for an id that was not registered.
C19_WitnessAbsent ==
    /\ regCall.op = "remove"
    /\ regCall.at = calls
    /\ ~regCall.ok
    /\ tensors # {}

\* C20: register_optimized of an id that is already registered raises an
\* error and leaves the entry's reference, last-access time and the registry
\* length as they were.
C20_DuplicateRegistrationFails ==
    [][(/\ regCall'.at # regCall.at
        /\ regCall'.op = "register"
        /\ regCall'.id \in tensors)
       => /\ ~regCall'.ok
          /\ UNCHANGED <<tensors, lru_cache, refs>>]_vars

(* ------------------------ Claims on the manager ------------------------ *)

\* C13: a share call (share_tensor, share_tensor_persistent or an async
\* variant) made once close() has returned raises the closed error, and it
\* allocates no slot, writes no byte and registers no reference.
C13_ShareAfterCloseRaises ==
    [][(closed /\ calls' # calls /\ refCall'.op = "share")
       => /\ refCall'.result = ManagerClosed
          /\ UNCHANGED <<allocVars, callerVars, mem, tensors, lru_cache,
                         cleanup_queue, refs>>]_vars

\* A manager that shared a tensor and was then closed has just refused an
\* async persistent share.
C13_Witness ==
    /\ closed
    /\ allocation_count = 1
    /\ refCall.op = "share"
    /\ refCall.via = "share_tensor_persistent_async"
    /\ refCall.result = ManagerClosed
    /\ tensors = {}

\* C14: once close() has returned, get_tensor, get_tensors_by_criteria,
\* get_performance_metrics, optimize_memory_now and cleanup_expired_tensors
\* fail with the closed error instead of returning a value.
C14_OperationsAfterCloseRaise ==
    [][(/\ closed
        /\ calls' # calls
        /\ refCall'.op \in ManagerQueries
                             \cup {"get_tensor", "cleanup_expired_tensors"})
       => refCall'.result = ManagerClosed]_vars

\* C15: the manager stays closed from the first close() on, however close()
\* is reached again, and from then on the pool's cleanup has run exactly
\* once and the segment's mapping has been released exactly once.
C15_CleanupExactlyOnce ==
    [][/\ closed => closed'
       /\ closed' => /\ cleanup_runs' = 1
                     /\ segment_releases' = 1
                     /\ ~segment_open']_vars

(* ------------------- Claims on detach and the registry ----------------- *)

\* C16: detach() of a shared tensor gives its slot back to the allocator:
\* allocations minus deallocations is one lower after the detach than before
\* it, and the tensor's offset is on the allocator's free list again.
C16_DetachReleasesSlot ==
    [][(/\ calls' # calls
        /\ refCall'.op = "detach"
        /\ refs[refCall'.id].state # "DETACHED")
       => /\ allocation_count' - deallocation_count'
               = allocation_count - deallocation_count - 1
          /\ \E i \in 1..Len(free_objects') :
                free_objects'[i] = refs[refCall'.id].offset]_vars

\* C17: a shared tensor's id is registered exactly while its reference is
\* not detached, and a get_tensor(id) made after the detach returns no
\* handle.
C17_RegistryFollowsLifetime ==
    \A id \in Ids :
        refs[id] # NoRef
        => /\ id \in tensors <=> refs[id].state # "DETACHED"
           /\ (/\ refCall.op = "get_tensor"
               /\ refCall.id = id
               /\ refs[id].state = "DETACHED")
              => refCall.result = "None"

(* ------------------------ Claims on the segments ----------------------- *)

\* C18: for every class of segment, read_vectorized(offset, size) and
\* write_vectorized(offset, data) with offset < 0 or offset + length beyond
\* the segment's size end in an error and leave the segment's bytes as they
\* were; no shortened view is returned and nothing is written.
C18_OutOfBoundsFails ==
    [][(/\ segCall'.op \in {"read", "write"}
        /\ \/ segCall'.offset < 0
           \/ segCall'.offset + segCall'.size > segment_size)
       => /\ segCall'.result # "ok"
          /\ mem' = mem]_vars

(* ------------------- Claims on lookup and descriptors ------------------ *)

\* A reference that is in none of the terminal states.
Live(r) == r.state \notin {"DETACHED", "CORRUPTED", "EXPIRED"}

\* The reference's descriptor agrees with every criterion that was supplied.
MatchesSupplied(r, shape, dtype, device) ==
    /\ shape # None => ShapeOf(r.descriptor) = shape[1]
    /\ dtype # None => DtypeOf(r.descriptor) = dtype[1]
    /\ device # None => DeviceOf(r.descriptor) = device[1]

\* 2 ^ k for some k
IsPowerOfTwo(n) == \E k \in 0..n : 2 ^ k = n

\* The product of the dimensions, taken from the right.
RECURSIVE Product(_)
Product(shape) ==
    IF shape = <<>> THEN 1 ELSE Head(shape) * Product(Tail(shape))

C21_CriteriaLookupExact ==
    (regCall.op = "criteria" /\ regCall.at = calls)
    => regCall.result =
          {id \in tensors :
              /\ Live(refs[id])
              /\ MatchesSupplied(refs[id], regCall.shape, regCall.dtype,
                                 regCall.device)}



(* -------------------- Claims on the allocator's sets ------------------- *)

\* The offsets held in the free list, as a set.
FreeOffsets == { free_objects[i] : i \in 1..Len(free_objects) }

\* C23: no object offset is both in the free list and live (handed out and
\* not yet deallocated), and no offset occurs twice in the free list.
C23_FreeListDisjointFromLive ==
    /\ \A o \in FreeOffsets : live[o] = 0
    /\ \A i, j \in 1..Len(free_objects) :
           i # j => free_objects[i] # free_objects[j]

\* C24: each slab is in exactly one of the sets empty, partial and full, and
\* its set agrees with its count of free objects: empty iff all of its
\* objects are free, full iff none is free, partial otherwise.
C24_ClassificationAgrees ==
    /\ partial_slabs \cap full_slabs = {}
    /\ partial_slabs \cap empty_slabs = {}
    /\ full_slabs \cap empty_slabs = {}
    /\ \A s \in AllSlabs :
           LET n == FreeCountInSlab(free_objects, s)
           IN  /\ s \in empty_slabs <=> n = objects_per_slab
               /\ s \in full_slabs <=> n = 0
               /\ s \in partial_slabs <=> (0 < n /\ n < objects_per_slab)


(* ------------------ Claims on the registry's threads ------------------- *)

\* C25: when threads interleave register, get, remove and cleanup, every id
\* that has a time in the last-access map is in the primary map, and so an
\* id that remove() has removed does not stay or reappear in the map.  Stated
\* for the states in which no thread is inside a method of the registry.
C25_IndexWithinPrimary ==
    (\A t \in Threads : threads[t] = Idle)
        => \A id \in Ids : lru_cache[id] # NoTime => id \in tensors


(* ---------------- Claims on the states of a reference ------------------ *)

\* The bytes of the slot allocated to the reference r.
SlotOf(memory, r) ==
    ReadVectorized(memory, r.offset, AlignedByteSize(r.descriptor))

\* The step is the call op on the reference id (and not a call made on the
\* registry directly, which leaves refCall as it was).
CallOn(op, id) ==
    /\ calls' # calls
    /\ regCall' = regCall
    /\ refCall'.op = op
    /\ refCall'.id = id

\* C26: once a reference is DETACHED no step changes its state, its
\* descriptor (the checksum with it) or the bytes of its slot: a persist
\* fails with the detached error, a materialize fails with it and returns no
\* buffer, a further detach returns and the eviction callback keeps the
\* state.
C26_DetachedIsTerminal ==
    [][ \A id \in Ids :
          (refs[id] # NoRef /\ refs[id].state = "DETACHED") =>
              /\ refs'[id].state = "DETACHED"
              /\ refs'[id].descriptor = refs[id].descriptor
              /\ SlotOf(mem', refs[id]) = SlotOf(mem, refs[id])
              /\ OnTensorDeleted(refs[id]).state = "DETACHED"
              /\ CallOn("set", id) =>
                     refCall'.result = "TensorError: detached"
              /\ CallOn("get", id) =>
                     /\ refCall'.result = "TensorError: detached"
                     /\ refCall'.tensor = <<>>
              /\ CallOn("detach", id) => refCall'.result = "ok"
      ]_vars

C26_Witness ==
    \E id \in Ids :
        /\ refs[id] # NoRef
        /\ refs[id].state = "DETACHED"
        /\ hist[id].detached = "with_cache"
        /\ hist[id].sets # <<>>
        /\ refCall.op = "set"
        /\ refCall.id = id
        /\ refCall.result = "TensorError: detached"


C28_OversizePersistWritesNothing ==
    [][ \A id \in Ids, tensor \in TensorValues :
          (/\ refs[id] # NoRef
           /\ refs[id].state # "DETACHED"
           /\ CallOn("set", id)
           /\ Len(EncodeParallel(tensor, refs[id].descriptor.compression_type))
                  > AlignedByteSize(refs[id].descriptor)
           /\ Set(id, tensor))
          => /\ refCall'.result = "TensorError: oversize"
             /\ mem' = mem
             /\ refs'[id].descriptor = refs[id].descriptor
      ]_vars

C28_Witness ==
    \E id \in Ids :
        /\ refs[id] # NoRef
        /\ refCall.op = "set"
        /\ refCall.id = id
        /\ refCall.result = "TensorError: oversize"
        /\ hist[id].sets # <<>>
        /\ Stored(id) = ExpectedStored(id)
        /\ refs[id].descriptor.checksum = ComputeChecksumSimd(LastValue(id))


\* C29: a materialize on a reference whose cached buffer is alive returns
\* that buffer without reading, validating or decoding storage (whatever the
\* codec would answer), adds exactly one to access_count and leaves the
\* stored bytes and the descriptor unchanged.
C29_FastPathReturnsCached ==
    [][ \A id \in Ids :
          (refs[id] # NoRef /\ refs[id].weak_tensor.alive /\ CallOn("get", id))
          => /\ refCall'.result = "ok"
             /\ refCall'.tensor = refs[id].weak_tensor.tensor
             /\ refCall'.path = "cached"
             /\ refs'[id].access_count = refs[id].access_count + 1
             /\ refs'[id].weak_tensor = refs[id].weak_tensor
             /\ mem' = mem
             /\ refs'[id].descriptor = refs[id].descriptor
      ]_vars

C29_Witness ==
    \E id \in Ids :
        /\ refs[id] # NoRef
        /\ refCall.op = "get"
        /\ refCall.id = id
        /\ refCall.path = "cached"
        /\ refCall.tensor = <<0, 1>>
        /\ refs[id].weak_tensor.alive
        /\ refs[id].access_count = 2


\* C30: the eviction callback moves a reference to CACHED only when it is
\* ACTIVE and leaves every other state as it is; a reference in CACHED holds
\* no live materialized buffer; the next materialize from CACHED reads
\* storage and ends in ACTIVE.
C30_CachedHoldsNoBuffer ==
    [][ \A id \in Ids :
          refs[id] # NoRef =>
              /\ refs[id].state = "CACHED" => ~refs[id].weak_tensor.alive
              /\ OnTensorDeleted(refs[id]).state =
                     (IF refs[id].state = "ACTIVE" THEN "CACHED"
                      ELSE refs[id].state)
              /\ CallOn("evict", id) =>
                     refs'[id].state = OnTensorDeleted(refs[id]).state
              /\ (refs[id].state = "CACHED" /\ CallOn("get", id)) =>
                     /\ refCall'.path = "storage"
                     /\ refs'[id].state = "ACTIVE"
      ]_vars


(* ----------------------- Claims on reallocate -------------------------- *)

\* C31: reallocate with new_size <= object_size returns the same offset and
\* leaves the allocator and the segment bytes unchanged; with
\* new_size > object_size it returns a newly allocated offset that holds the
\* first min(old_size, new_size) bytes of the old object, and the old offset
\* is freed.
C31_ReallocateFitsOrMoves ==
    [][ \A offset \in Offsets, old_size \in ObjectSizes,
           new_size \in 1..(MaxObjectSize + 1) :
          (/\ lastCall'.op = "reallocate"
           /\ lastCall'.size = new_size
           /\ live[offset] > 0
           /\ ReallocateCall(offset, old_size, new_size))
          => IF new_size <= object_size
             THEN /\ lastCall'.result = "ok"
                  /\ lastCall'.offset = offset
                  /\ UNCHANGED <<allocVars, mem>>
             ELSE /\ lastCall'.result = "ok"
                  /\ lastCall'.offset # offset
                  /\ live'[lastCall'.offset] = 1
                  /\ live'[offset] = live[offset] - 1
                  /\ ReadVectorized(mem', lastCall'.offset,
                                    Min(old_size, new_size))
                       = ReadVectorized(mem, offset, Min(old_size, new_size))
      ]_vars


(* -------------------- Claims on the background loops ------------------- *)

\* C32: once its shutdown signal is set (the registry's event, the manager's
\* closed flag) a background loop starts no new pass and eventually ends;
\* before the signal an exception raised in a pass does not end the loop.
C32_LoopsStopOnSignal ==
    /\ [][ /\ (shutdown_event /\ loops["registry"].pc # "pass")
                => loops'["registry"].pc # "pass"
           /\ (closed /\ loops["manager"].pc # "pass")
                => loops'["manager"].pc # "pass"
           /\ \A l \in Loops :
                (loops[l].pc = "pass" /\ loops'[l].errors > loops[l].errors)
                  => loops'[l].pc \notin {"done", "pass"}
         ]_vars
    /\ shutdown_event ~> (loops["registry"].pc = "done")
    /\ closed ~> (loops["manager"].pc = "done")

C32_Witness ==
    /\ closed
    /\ shutdown_event
    /\ \A l \in Loops :
         /\ loops[l].pc = "done"
         /\ loops[l].errors >= 1
         /\ loops[l].passes > loops[l].errors


(* ----------------- Claims on the allocator's objects ------------------- *)

\* C33: for every slab_size and object_size, an offset that allocate_aligned
\* returns satisfies 0 <= offset and offset + object_size <= segment size,
\* and the object lies inside one slab.
C33_ObjectsInsideSegment ==
    (lastCall.op = "allocate" /\ lastCall.result = "ok") =>
        /\ 0 <= lastCall.offset
        /\ lastCall.offset + object_size <= segment_size
        /\ \E slab_offset \in AllSlabs :
               /\ slab_offset <= lastCall.offset
               /\ lastCall.offset + object_size <= slab_offset + slab_size


(* --------------- Claims on what a failed call leaves ------------------- *)

\* C34: when materialize, persist or detach has returned or raised and no
\* call on the reference is in progress, the reference's state is none of
\* MATERIALIZING, PERSISTING and DETACHING.
C34_NoTransientStateLeft ==
    \A id \in Ids :
        refs[id] # NoRef =>
            refs[id].state \notin {"MATERIALIZING", "PERSISTING", "DETACHING"}


\* C35: the number of live allocations (allocation_count -
\* deallocation_count) plus the length of the free list equals the number of
\* slabs times objects_per_slab, so that the reported utilization lies
\* between 0 and 1.
C35_ObjectsConserved ==
    LET u == GetUtilizationStats(Allocator).utilization
    IN  /\ (allocation_count - deallocation_count) + Len(free_objects)
               = Cardinality(AllSlabs) * objects_per_slab
        /\ 0 <= u[1]
        /\ u[1] <= u[2]


(* ------------------- Claims on the writes of the pool ------------------ *)

\* The bytes of the segment that a step changed.
Written == { o \in DOMAIN mem : mem'[o] # mem[o] }

\* C36: every write issued by share and by persist covers only bytes within
\* [offset, offset + aligned_byte_size) of the slot allocated to that
\* tensor, whatever length the encoder produced: a share or a set of a
\* tensor changes no byte outside that range.
C36_WritesInsideSlot ==
    [][\A id \in Ids :
          (/\ calls' # calls
           /\ refCall'.op \in {"share", "set"}
           /\ refCall'.id = id)
          => \A o \in Written :
                 /\ refs'[id].offset <= o
                 /\ o < refs'[id].offset
                          + AlignedByteSize(refs'[id].descriptor)]_vars


\* C37: share is all-or-nothing: when share_tensor fails at any step
\* (allocation, write, registration), no registry entry exists for the new
\* tensor afterwards and the allocator's count of live allocations is the
\* same as before the call.
C37_ShareAllOrNothing ==
    [][(/\ calls' # calls
        /\ refCall'.op = "share"
        /\ refCall'.result # "ok")
       => /\ tensors' = tensors
          /\ allocation_count' - deallocation_count'
                 = allocation_count - deallocation_count]_vars


(* ------------- Claims on the allocators of cuda_kernel_manager --------- *)

\* The bytes of a block <<offset, size>>.
BlockBytes(b) == b[1]..(b[1] + b[2] - 1)
AllocatedBlocks == { <<o, allocated_blocks[o]>> : o \in DOMAIN allocated_blocks }
FreeBlockSet == { free_blocks[i] : i \in 1..Len(free_blocks) }
RECURSIVE SumSizes(_)
SumSizes(bs) ==
    IF bs = {} THEN 0
    ELSE LET b == CHOOSE x \in bs : TRUE IN b[2] + SumSizes(bs \ {b})

\* C38 (the blocks): for a BestFitAllocator the allocated blocks and the
\* free blocks are pairwise disjoint and together cover exactly
\* [0, total_size), _allocated_size is the sum of the allocated block sizes,
\* no two free blocks are adjacent, and when no block is allocated the free
\* list is the single block (0, total_size).
BestFitPartition ==
    allocator = "BestFitAllocator" =>
        /\ \A i, j \in 1..Len(free_blocks) :
               i # j => /\ BlockBytes(free_blocks[i])
                               \cap BlockBytes(free_blocks[j]) = {}
                        /\ free_blocks[i][1] + free_blocks[i][2]
                               # free_blocks[j][1]
        /\ \A b, c \in AllocatedBlocks :
               b # c => BlockBytes(b) \cap BlockBytes(c) = {}
        /\ \A b \in AllocatedBlocks, c \in FreeBlockSet :
               BlockBytes(b) \cap BlockBytes(c) = {}
        /\ UNION { BlockBytes(b) : b \in AllocatedBlocks \cup FreeBlockSet }
               = 0..(total_size - 1)
        /\ allocated_size = SumSizes(AllocatedBlocks)
        /\ AllocatedBlocks = {} => free_blocks = << <<0, total_size>> >>

\* C38: the partition above holds after any sequence of allocate and
\* deallocate calls, and deallocate of a pointer that is not allocated
\* returns False and changes nothing.
C38_BestFitPartition ==
    /\ [](BestFitPartition)
    /\ [][\A ptr \in 0..MaxTotal :
            (/\ allocator = "BestFitAllocator"
             /\ ptr \notin DOMAIN allocated_blocks
             /\ BestFitDeallocate(ptr))
            => /\ gpuCall'.result = "False"
               /\ UNCHANGED <<free_blocks, allocated_blocks, allocated_size,
                              total_size>>]_vars


\* The free blocks of a BuddyAllocator: <<offset, size>> for every offset
\* on the free list of a size.
BuddyFreeBlocks ==
    UNION { { <<o, size>> : o \in free_lists[size] } :
            size \in DOMAIN free_lists }

\* C39: for a BuddyAllocator whose total_size is min_size times a power of
\* two, after any sequence of allocate and deallocate calls the allocated
\* blocks are pairwise disjoint and disjoint from every free block, each
\* block's offset is a multiple of its size, and when no block is allocated
\* the only free block is (0, total_size).
C39_BuddyBlocks ==
    allocator = "BuddyAllocator" =>
        /\ \A b, c \in AllocatedBlocks :
               b # c => BlockBytes(b) \cap BlockBytes(c) = {}
        /\ \A b \in AllocatedBlocks, c \in BuddyFreeBlocks :
               BlockBytes(b) \cap BlockBytes(c) = {}
        /\ \A b \in AllocatedBlocks \cup BuddyFreeBlocks : b[1] % b[2] = 0
        /\ AllocatedBlocks = {} => BuddyFreeBlocks = { <<0, total_size>> }

====
